---- MODULE Spec2Model ----
(***************************************************************************)
(* Model of the usage-to-cost engine of agents-usage (src/src/pricing.ts,  *)
(* src/src/utils.ts, src/src/reporting/aggregate.ts): the pricing catalog  *)
(* acquisition with its cache and fallback chain, the model identifier     *)
(* resolver, the tiered cost calculator, the cost estimate of an entry,    *)
(* the monthly aggregation, the loaders of the Claude and Codex logs, and  *)
(* two acquisitions running at the same time on one cache file.            *)
(*                                                                         *)
(* JavaScript values are records carrying their type in the field t, so    *)
(* that typeof, == null and property access are modelled by what they do.  *)
(* Strings that the code inspects (model names, catalog keys) are          *)
(* sequences of one-character strings.                                     *)
(***************************************************************************)
EXTENDS Integers, Sequences, FiniteSets, TLC

VARIABLES
    cacheFile,    \* content of CACHE_FILE on disk
    now,          \* Date.now(), in milliseconds
    calls,        \* number of loadPricingStatus calls made so far
    call,         \* the inputs and observations of the last loadPricingStatus call
    status,       \* the PricingStatus the last call returned
    threw,        \* whether the last call ended with an exception
    netRequests,  \* network requests issued by the last call
    cacheWrites,  \* writeCache calls made by the last call
    resolveIn,    \* the catalog and the usage entry given to resolvePricing
    resolveOut,   \* what resolvePricing returned for them
    costIn,       \* the arguments given to calculateTieredCost
    costOut,      \* what calculateTieredCost returned for them
    estimateIn,   \* the catalog and the usage entry given to estimateEntryCostUSD
    estimateOut,  \* what estimateEntryCostUSD returned for them
    summaryIn,    \* the entries, month and catalog given to aggregateSourceSummary
    summaryOut,   \* the SourceSummary it returned
    variantsIn,   \* the model string given to modelVariants
    variantsOut,  \* the variants it returned
    dedupe,       \* loadClaudeEntries: the message:request keys seen so far
    claudeLine,   \* loadClaudeEntries: the line read last
    claudeEntry,  \* loadClaudeEntries: the entry pushed for that line, if any
    codexFile,    \* loadCodexEntries: number of the session file being read
    previousTotals, \* loadCodexEntries: the cumulative baseline of that file
    currentModel, \* loadCodexEntries: the model last seen in that file
    codexLine,    \* loadCodexEntries: the line read last
    codexEntry,   \* loadCodexEntries: the entry pushed for that line, if any
    contextModel, \* history: the model of the last turn_context line of that file
                  \* that carried one
    cumulative,   \* history: every token_count line of that file so far had a valid
                  \* timestamp and a cumulative total not below the one before it
    emitted,      \* history: the token sums of the entries pushed for that file,
                  \* kept while cumulative holds
    diskText,     \* concurrent acquisitions: CACHE_FILE as the units written to it
    procs,        \* concurrent acquisitions: where each process stands
    writeOrder    \* history: the processes in the order their writeFile completed

acquisitionVars == <<cacheFile, now, calls, call, status, threw, netRequests, cacheWrites>>
resolverVars == <<resolveIn, resolveOut>>
costVars == <<costIn, costOut>>
reportVars == <<estimateIn, estimateOut, summaryIn, summaryOut, variantsIn, variantsOut>>
claudeVars == <<dedupe, claudeLine, claudeEntry>>
codexVars ==
    <<codexFile, previousTotals, currentModel, codexLine, codexEntry, contextModel,
      cumulative, emitted>>
loaderVars == <<claudeVars, codexVars>>
raceVars == <<diskText, procs, writeOrder>>
vars == <<acquisitionVars, resolverVars, costVars, reportVars, loaderVars, raceVars>>

(***************************************************************************)
(* Bounds of the model.                                                    *)
(***************************************************************************)
MaxCalls == 2
MaxTicks == 2
MaxCatalogKeys == 3
MaxEntries == 2      \* entries handed to one aggregation
DaysInMonth == 2     \* days of the month that is aggregated
MaxFiles == 2        \* Codex session files read by one load

(***************************************************************************)
(* JavaScript / JSON values.                                               *)
(***************************************************************************)
JUndefined == [t |-> "undefined"]
JNull == [t |-> "null"]
JNumber == [t |-> "number"]
JString == [t |-> "string", iso |-> FALSE, ms |-> 0]
JArray == [t |-> "array"]

\* a string holding an ISO-8601 date, and a number used as a timestamp
IsoString(ms) == [t |-> "string", iso |-> TRUE, ms |-> ms]
MsNumber(ms) == [t |-> "number", ms |-> ms]

\* value == null  (true of null and undefined)
IsNullish(v) == v.t \in {"null", "undefined"}

\* typeof value
TypeOf(v) ==
    CASE v.t \in {"null", "array", "object"} -> "object"
      [] OTHER -> v.t

\* value.name for a non-nullish value: own properties of JSON values only
Prop(v, name) ==
    IF v.t = "object" /\ name \in DOMAIN v THEN v[name] ELSE JUndefined

\* value?.name
OptProp(v, name) ==
    IF IsNullish(v) THEN JUndefined ELSE Prop(v, name)

\* a catalog: an object whose own properties, in insertion order, are entries
CatalogObject(entries) == [t |-> "object", entries |-> entries]

\* Object.keys(value).length
ObjectKeysLength(v) ==
    IF v.t = "object" /\ "entries" \in DOMAIN v THEN Len(v.entries) ELSE 0

(***************************************************************************)
(* Time.                                                                   *)
(***************************************************************************)
CACHE_MAX_AGE_MS == 1000 * 60 * 60 * 24
HalfDayMs == 1000 * 60 * 60 * 12
FETCH_TIMEOUT_MS == 10000
StartMs == 10 * HalfDayMs

\* new Date(value).getTime(): NaN unless the value converts to a time
DateGetTime(v) ==
    CASE v.t = "string" -> [finite |-> v.iso, ms |-> v.ms]
      [] v.t = "number" /\ "ms" \in DOMAIN v -> [finite |-> TRUE, ms |-> v.ms]
      [] v.t = "null" -> [finite |-> TRUE, ms |-> 0]
      [] OTHER -> [finite |-> FALSE, ms |-> 0]

\* new Date(clock).toISOString()
ToISOString(clock) == IsoString(clock)

\* IsFresh with the age compared by <= : a cache exactly 24 hours old is fresh
IsFreshInclusive(timestamp, clock) ==
    LET time == DateGetTime(timestamp) IN
    IF ~time.finite THEN FALSE
    ELSE clock - time.ms <= CACHE_MAX_AGE_MS

IsFresh(timestamp, clock) ==
    LET time == DateGetTime(timestamp) IN
    IF ~time.finite THEN FALSE
    ELSE clock - time.ms < CACHE_MAX_AGE_MS

(***************************************************************************)
(* Files: readFile / JSON.parse / writeFile on one path.                   *)
(***************************************************************************)
AbsentFile == [exists |-> FALSE, parses |-> FALSE, value |-> JUndefined]
CorruptFile == [exists |-> TRUE, parses |-> FALSE, value |-> JUndefined]

\* JSON.stringify(value) written out in full
JsonText(value) == [exists |-> TRUE, parses |-> TRUE, value |-> value]

\* readFile(filePath, 'utf8'): rejects when the file does not exist
ReadFile(file) == [threw |-> ~file.exists, value |-> file]

\* JSON.parse(content): throws on text that is not JSON
JsonParse(content) == [threw |-> ~content.parses, value |-> content.value]

\* try { return JSON.parse(await readFile(...)) } catch { return null }
ReadJsonFile(file) ==
    LET content == ReadFile(file) IN
    IF content.threw THEN [threw |-> FALSE, value |-> JNull]
    ELSE LET parsed == JsonParse(content.value) IN
         IF parsed.threw THEN [threw |-> FALSE, value |-> JNull]
         ELSE [threw |-> FALSE, value |-> parsed.value]

\* How a writeJsonFile call can end: it succeeds; mkdir or the open fails and
\* the file is left as it was; or writeFile fails after truncating the file.
WriteOutcomes == {"written", "failed-untouched", "failed-truncated"}

\* await ensureParentDir(filePath); await writeFile(filePath, JSON.stringify(value))
WriteJsonFile(file, value, outcome) ==
    CASE outcome = "written" -> [threw |-> FALSE, file |-> JsonText(value)]
      [] outcome = "failed-untouched" -> [threw |-> TRUE, file |-> file]
      [] OTHER -> [threw |-> TRUE, file |-> CorruptFile]

(***************************************************************************)
(* The pricing cache (src/src/pricing.ts).                                 *)
(***************************************************************************)
\* the PricingCacheFile document { fetchedAt, data }
CacheDoc(fetchedAt, data) == [t |-> "object", fetchedAt |-> fetchedAt, data |-> data]

ReadCache(file, clock) ==
    LET r == ReadJsonFile(file)
        cached == r.value
    IN  IF r.threw THEN [threw |-> TRUE, value |-> JNull]
        ELSE IF IsNullish(cached) \/ TypeOf(cached) # "object"
                \/ IsNullish(Prop(cached, "data"))
        THEN [threw |-> FALSE, value |-> JNull]
        ELSE IF ~IsFresh(Prop(cached, "fetchedAt"), clock)
        THEN [threw |-> FALSE, value |-> JNull]
        ELSE [threw |-> FALSE, value |-> cached]

\* WriteCache storing the catalog itself instead of the { fetchedAt, data } document
WriteCacheBare(file, data, clock, outcome) ==
    WriteJsonFile(file, data, outcome)

WriteCache(file, data, clock, outcome) ==
    WriteJsonFile(file, CacheDoc(ToISOString(clock), data), outcome)

\* The text JSON.stringify(doc) of a cache document, as the units in which
\* writeFile hands it to the file one after the other: the first unit holds
\* fetchedAt and the start of data, every entry of data fills one more.
SerializedUnits(doc) ==
    [i \in 1..(1 + ObjectKeysLength(doc.data)) |->
        [unit |-> i, head |-> IF i = 1 THEN doc.fetchedAt ELSE JNull, data |-> doc.data]]

\* what a read finds where nothing was written: the gap an earlier truncation
\* leaves below the position of a descriptor opened before it
NulUnit == [unit |-> 0, head |-> JNull, data |-> JNull]

NoText == [exists |-> FALSE, units |-> <<>>]
DiskText(units) == [exists |-> TRUE, units |-> units]

\* what readFile and JSON.parse make of the units on disk: a document when
\* they are the whole text of one, text that does not parse otherwise
FileOfText(text) ==
    IF ~text.exists THEN AbsentFile
    ELSE IF /\ text.units # <<>>
            /\ text.units[1].unit = 1
            /\ text.units = SerializedUnits(CacheDoc(text.units[1].head, text.units[1].data))
    THEN JsonText(CacheDoc(text.units[1].head, text.units[1].data))
    ELSE CorruptFile

\* writeFile, first step: open(path, 'w') creates the file or truncates it
OpenTruncate(text) == DiskText(<<>>)

\* writeFile, further steps: write one unit at the position pos of the
\* descriptor (the number of units it has written so far)
WriteUnit(text, pos, u) ==
    DiskText([i \in 1..(IF Len(text.units) > pos + 1 THEN Len(text.units) ELSE pos + 1) |->
                 IF i = pos + 1 THEN u
                 ELSE IF i <= Len(text.units) THEN text.units[i]
                 ELSE NulUnit])

\* How the GET request can end.
FetchOutcomes == {"transport-error", "timeout", "bad-status", "body-parse-error", "ok"}

\* FetchTry persisting the parsed body before its shape is checked
FetchTryWriteFirst(file, clock, inp) ==
    IF inp.outcome \in {"transport-error", "timeout"}
    THEN [threw |-> TRUE, value |-> JNull, file |-> file, writes |-> 0]
    ELSE IF inp.outcome = "bad-status"
    THEN [threw |-> FALSE, value |-> JNull, file |-> file, writes |-> 0]
    ELSE IF inp.outcome = "body-parse-error"
    THEN [threw |-> TRUE, value |-> JNull, file |-> file, writes |-> 0]
    ELSE LET parsed == inp.payload
             w == WriteCache(file, parsed, clock,
                             IF inp.write = "none" THEN "written" ELSE inp.write)
         IN  IF w.threw
             THEN [threw |-> TRUE, value |-> JNull, file |-> w.file, writes |-> 1]
             ELSE IF IsNullish(parsed) \/ TypeOf(parsed) # "object" \/ parsed.t = "array"
             THEN [threw |-> FALSE, value |-> JNull, file |-> w.file, writes |-> 1]
             ELSE [threw |-> FALSE, value |-> parsed, file |-> w.file, writes |-> 1]

\* The body of the try block of fetchLiteLLMPricing; clock is the time at
\* which the response has been read.
FetchTry(file, clock, inp) ==
    IF inp.outcome \in {"transport-error", "timeout"}
    THEN [threw |-> TRUE, value |-> JNull, file |-> file, writes |-> 0]
    ELSE IF inp.outcome = "bad-status"
    THEN [threw |-> FALSE, value |-> JNull, file |-> file, writes |-> 0]
    ELSE IF inp.outcome = "body-parse-error"
    THEN [threw |-> TRUE, value |-> JNull, file |-> file, writes |-> 0]
    ELSE LET parsed == inp.payload IN
         IF IsNullish(parsed) \/ TypeOf(parsed) # "object" \/ parsed.t = "array"
         THEN [threw |-> FALSE, value |-> JNull, file |-> file, writes |-> 0]
         ELSE LET w == WriteCache(file, parsed, clock, inp.write) IN
              [threw |-> w.threw, value |-> IF w.threw THEN JNull ELSE parsed,
               file |-> w.file, writes |-> 1]

\* FetchLiteLLMPricing without the catch clause: exceptions reach the caller
FetchLiteLLMPricingNoCatch(file, clock, inp) ==
    FetchTry(file, clock, inp)

\* try { ... } catch { return null } finally { clearTimeout(timeout) }
FetchLiteLLMPricing(file, clock, inp) ==
    LET r == FetchTry(file, clock, inp) IN
    IF r.threw THEN [r EXCEPT !.threw = FALSE, !.value = JNull] ELSE r

PricingStatus(pricingMap, isEmpty, source) ==
    [pricingMap |-> pricingMap, isEmpty |-> isEmpty, source |-> source]

NoStatus == PricingStatus(JUndefined, FALSE, "none")

\* What a call that ends with an exception leaves behind.
Thrown(file, requests, writes) ==
    [threw |-> TRUE, status |-> NoStatus, file |-> file,
     requests |-> requests, writes |-> writes]

Returned(st, file, requests, writes) ==
    [threw |-> FALSE, status |-> st, file |-> file,
     requests |-> requests, writes |-> writes]

\* LoadOffline answering offline-empty for a cache that holds an empty catalog
LoadOfflineNonEmptyOnly(file) ==
    LET staleR == ReadJsonFile(file)
        stale == staleR.value
    IN  IF staleR.threw THEN Thrown(file, 0, 0)
        ELSE IF ~IsNullish(OptProp(stale, "data"))
                /\ ObjectKeysLength(Prop(stale, "data")) # 0
        THEN Returned(PricingStatus(Prop(stale, "data"), FALSE, "offline-cache"),
                      file, 0, 0)
        ELSE Returned(PricingStatus(CatalogObject(<<>>), TRUE, "offline-empty"),
                      file, 0, 0)

\* The offline branch of loadPricingStatus: CACHE_FILE is read regardless of age.
LoadOffline(file) ==
    LET staleR == ReadJsonFile(file)
        stale == staleR.value
    IN  IF staleR.threw THEN Thrown(file, 0, 0)
        ELSE IF ~IsNullish(OptProp(stale, "data"))
        THEN Returned(PricingStatus(Prop(stale, "data"),
                                    ObjectKeysLength(Prop(stale, "data")) = 0,
                                    "offline-cache"), file, 0, 0)
        ELSE Returned(PricingStatus(CatalogObject(<<>>), TRUE, "offline-empty"),
                      file, 0, 0)

\* LoadOnline with the stale re-read going through the freshness check
LoadOnlineFreshOnly(file, clock, cached, inp) ==
    LET f == FetchLiteLLMPricing(file, clock + inp.elapsed, inp)
        fetched == f.value
    IN  IF f.threw THEN Thrown(f.file, 1, f.writes)
        ELSE IF ~IsNullish(fetched)
        THEN Returned(PricingStatus(fetched, ObjectKeysLength(fetched) = 0, "remote"),
                      f.file, 1, f.writes)
        ELSE IF ~IsNullish(cached)
        THEN Returned(PricingStatus(Prop(cached, "data"),
                                    ObjectKeysLength(Prop(cached, "data")) = 0,
                                    "fresh-cache"), f.file, 1, f.writes)
        ELSE LET staleR == ReadCache(f.file, clock + inp.elapsed)
                 stale == staleR.value
             IN  IF staleR.threw THEN Thrown(f.file, 1, f.writes)
                 ELSE IF ~IsNullish(OptProp(stale, "data"))
                 THEN Returned(PricingStatus(Prop(stale, "data"),
                                             ObjectKeysLength(Prop(stale, "data")) = 0,
                                             "stale-cache"), f.file, 1, f.writes)
                 ELSE Returned(PricingStatus(CatalogObject(<<>>), TRUE, "unavailable"),
                               f.file, 1, f.writes)

\* The rest of loadPricingStatus when offline is false: cached is what
\* readCache returned before the request.
LoadOnline(file, clock, cached, inp) ==
    LET f == FetchLiteLLMPricing(file, clock + inp.elapsed, inp)
        fetched == f.value
    IN  IF f.threw THEN Thrown(f.file, 1, f.writes)
        ELSE IF ~IsNullish(fetched)
        THEN Returned(PricingStatus(fetched, ObjectKeysLength(fetched) = 0, "remote"),
                      f.file, 1, f.writes)
        ELSE IF ~IsNullish(cached)
        THEN Returned(PricingStatus(Prop(cached, "data"),
                                    ObjectKeysLength(Prop(cached, "data")) = 0,
                                    "fresh-cache"), f.file, 1, f.writes)
        ELSE LET staleR == ReadJsonFile(f.file)
                 stale == staleR.value
             IN  IF staleR.threw THEN Thrown(f.file, 1, f.writes)
                 ELSE IF ~IsNullish(OptProp(stale, "data"))
                 THEN Returned(PricingStatus(Prop(stale, "data"),
                                             ObjectKeysLength(Prop(stale, "data")) = 0,
                                             "stale-cache"), f.file, 1, f.writes)
                 ELSE Returned(PricingStatus(CatalogObject(<<>>), TRUE, "unavailable"),
                               f.file, 1, f.writes)

\* inputs of a request that fails at once, as issued by the variant below
FailingFetch ==
    [outcome |-> "transport-error", payload |-> JUndefined, write |-> "none", elapsed |-> 0]

\* LoadPricingStatus testing the offline flag only after the request was made
LoadPricingStatusFetchFirst(file, clock, offline, inp) ==
    LET cachedR == ReadCache(file, clock) IN
    IF cachedR.threw THEN Thrown(file, 0, 0)
    ELSE IF offline
    THEN LET f == FetchLiteLLMPricing(file, clock, FailingFetch)
             r == LoadOffline(f.file)
         IN  [r EXCEPT !.requests = 1]
    ELSE LoadOnline(file, clock, cachedR.value, inp)

\* loadPricingStatus(offline) started at time clock on the cache file `file`;
\* inp says how the request and the cache write end and how long they take.
LoadPricingStatus(file, clock, offline, inp) ==
    LET cachedR == ReadCache(file, clock) IN
    IF cachedR.threw THEN Thrown(file, 0, 0)
    ELSE IF offline THEN LoadOffline(file)
    ELSE LoadOnline(file, clock, cachedR.value, inp)

(***************************************************************************)
(* Strings: sequences of one-character strings, with the String methods    *)
(* the resolver uses.                                                      *)
(***************************************************************************)
UpperLetters ==
    <<"A", "B", "C", "D", "E", "F", "G", "H", "I", "J", "K", "L", "M",
      "N", "O", "P", "Q", "R", "S", "T", "U", "V", "W", "X", "Y", "Z">>
LowerLetters ==
    <<"a", "b", "c", "d", "e", "f", "g", "h", "i", "j", "k", "l", "m",
      "n", "o", "p", "q", "r", "s", "t", "u", "v", "w", "x", "y", "z">>
Digits == {"0", "1", "2", "3", "4", "5", "6", "7", "8", "9"}
WhiteSpace == {" ", "\t", "\n"}

LowerChar(c) ==
    IF \E i \in 1..26 : UpperLetters[i] = c
    THEN LowerLetters[CHOOSE i \in 1..26 : UpperLetters[i] = c]
    ELSE c

\* s.toLowerCase()
ToLowerCase(s) == [i \in 1..Len(s) |-> LowerChar(s[i])]

\* s.trim()
Trim(s) ==
    LET keep == {i \in 1..Len(s) : s[i] \notin WhiteSpace} IN
    IF keep = {} THEN <<>>
    ELSE LET first == CHOOSE i \in keep : \A j \in keep : i <= j
             last == CHOOSE i \in keep : \A j \in keep : j <= i
         IN  SubSeq(s, first, last)

\* s.endsWith(suffix)
EndsWith(s, suffix) ==
    /\ Len(suffix) <= Len(s)
    /\ SubSeq(s, Len(s) - Len(suffix) + 1, Len(s)) = suffix

\* s.includes(part)
Includes(s, part) ==
    \E i \in 0..(Len(s) - Len(part)) : SubSeq(s, i + 1, i + Len(part)) = part

\* one or more digits: \d+
IsDigits(s) == Len(s) > 0 /\ \A i \in 1..Len(s) : s[i] \in Digits

\* new Set(...) keeps insertion order and drops repeats
SetAdd(seq, x) ==
    IF \E i \in 1..Len(seq) : seq[i] = x THEN seq ELSE Append(seq, x)

RECURSIVE SetAddAll(_, _)
SetAddAll(seq, xs) ==
    IF xs = <<>> THEN seq ELSE SetAddAll(SetAdd(seq, Head(xs)), Tail(xs))

S_gpt == <<"g", "p", "t">>
S_dash == <<"-">>
S_slash == <<"/">>
S_dot == <<".">>
S_codex == <<"c", "o", "d", "e", "x">>
S_mini == <<"m", "i", "n", "i">>
S_max == <<"m", "a", "x">>
S_high == <<"h", "i", "g", "h">>
S_low == <<"l", "o", "w">>
S_latest == <<"l", "a", "t", "e", "s", "t">>
S_openai == <<"o", "p", "e", "n", "a", "i">>
S_azure == <<"a", "z", "u", "r", "e">>
S_openrouter == <<"o", "p", "e", "n", "r", "o", "u", "t", "e", "r">>
S_anthropic == <<"a", "n", "t", "h", "r", "o", "p", "i", "c">>
S_vertex_ai == <<"v", "e", "r", "t", "e", "x", "_", "a", "i">>
S_gemini_3_pro == <<"g", "e", "m", "i", "n", "i", "-", "3", "-", "p", "r", "o">>
S_preview == <<"p", "r", "e", "v", "i", "e", "w">>

S_gpt4 == S_gpt \o S_dash \o <<"4">>
S_gpt5 == S_gpt \o S_dash \o <<"5">>
S_gpt5_codex == S_gpt5 \o S_dash \o S_codex
S_openai_gpt4 == S_openai \o S_slash \o S_gpt4

(***************************************************************************)
(* The model identifier resolver (src/src/pricing.ts).                     *)
(***************************************************************************)
\* MODEL_ALIASES, as pairs <<key, alias>>
MODEL_ALIASES ==
    <<<<S_gpt5_codex, S_gpt5>>,
      <<S_gpt5_codex \o S_dash \o S_high, S_gpt5>>,
      <<S_gpt5_codex \o S_dash \o S_low, S_gpt5>>,
      <<S_gpt5_codex \o S_dash \o S_max, S_gpt5>>,
      <<S_gemini_3_pro \o S_dash \o S_high, S_gemini_3_pro \o S_dash \o S_preview>>>>

\* MODEL_ALIASES.get(key): the alias in a one-element sequence, or none
AliasOf(key) ==
    IF \E i \in 1..Len(MODEL_ALIASES) : MODEL_ALIASES[i][1] = key
    THEN <<MODEL_ALIASES[CHOOSE i \in 1..Len(MODEL_ALIASES) : MODEL_ALIASES[i][1] = key][2]>>
    ELSE <<>>

\* the texts (-codex(?:-(?:mini|max|high|low))?) matches
CodexSuffixes ==
    {S_dash \o S_codex} \cup
    {S_dash \o S_codex \o S_dash \o x : x \in {S_mini, S_max, S_high, S_low}}

\* /^(gpt-\d+)\.\d+<suffix>$/i on model: the positions <<d, e>> of the dot
\* and of the end of the minor version for which the pattern matches
VersionMatches(model, suffixes) ==
    {m \in (1..Len(model)) \X (1..Len(model)) :
        /\ m[1] < m[2]
        /\ model[m[1]] = "."
        /\ m[1] > 4
        /\ ToLowerCase(SubSeq(model, 1, 4)) = S_gpt \o S_dash
        /\ IsDigits(SubSeq(model, 5, m[1] - 1))
        /\ IsDigits(SubSeq(model, m[1] + 1, m[2]))
        /\ ToLowerCase(SubSeq(model, m[2] + 1, Len(model))) \in suffixes}

\* MaybeVersionAlias knowing only the -latest suffix
MaybeVersionAliasLatestOnly(model) ==
    IF EndsWith(model, S_dash \o S_latest)
    THEN <<SubSeq(model, 1, Len(model) - Len(S_dash \o S_latest))>>
    ELSE <<>>

MaybeVersionAlias(model) ==
    LET codexVersionMatch == VersionMatches(model, CodexSuffixes)
        gptVersionMatch == VersionMatches(model, {<<>>})
        a1 == IF codexVersionMatch # {}
              THEN LET m == CHOOSE x \in codexVersionMatch : TRUE IN
                   <<SubSeq(model, 1, m[1] - 1) \o SubSeq(model, m[2] + 1, Len(model))>>
              ELSE <<>>
        a2 == IF gptVersionMatch # {}
              THEN LET m == CHOOSE x \in gptVersionMatch : TRUE IN
                   <<SubSeq(model, 1, m[1] - 1)>>
              ELSE <<>>
        a3 == IF EndsWith(model, S_dash \o S_latest)
              THEN <<SubSeq(model, 1, Len(model) - Len(S_dash \o S_latest))>>
              ELSE <<>>
    IN  SetAddAll(<<>>, a1 \o a2 \o a3)

RECURSIVE AddExplicitAliases(_, _)
AddExplicitAliases(variants, snapshot) ==
    IF snapshot = <<>> THEN variants
    ELSE AddExplicitAliases(SetAddAll(variants, AliasOf(Head(snapshot))), Tail(snapshot))

ModelVariants(model) ==
    LET trimmed == Trim(model)
        v1 == IF trimmed # <<>> THEN <<trimmed>> ELSE <<>>
        v2 == SetAddAll(v1, MaybeVersionAlias(trimmed))
    IN  AddExplicitAliases(v2, v2)

ToNonEmpty(value) ==
    IF IsNullish(value) THEN <<>>
    ELSE LET trimmed == Trim(value.chars) IN
         IF trimmed = <<>> THEN <<>> ELSE <<trimmed>>

\* a string value carrying its characters
StringOf(chars) == [t |-> "string", chars |-> chars]

\* PrefixedCandidates without the provider hints of the codex origin
PrefixedCandidatesNoCodexHints(entry, provider, baseModel) ==
    LET p == ToNonEmpty(provider) IN
    (IF p = <<>> THEN <<>> ELSE <<p[1] \o S_slash \o baseModel>>)
    \o (IF entry.source = "claude"
        THEN <<S_anthropic \o S_slash \o baseModel, S_vertex_ai \o S_slash \o baseModel>>
        ELSE <<>>)

\* the candidates the inner loop body of pricingCandidates adds for one baseModel
PrefixedCandidates(entry, provider, baseModel) ==
    LET p == ToNonEmpty(provider) IN
    (IF p = <<>> THEN <<>> ELSE <<p[1] \o S_slash \o baseModel>>)
    \o (IF entry.source = "claude"
        THEN <<S_anthropic \o S_slash \o baseModel, S_vertex_ai \o S_slash \o baseModel>>
        ELSE <<>>)
    \o (IF entry.source = "codex"
        THEN <<S_openai \o S_slash \o baseModel, S_azure \o S_slash \o baseModel,
               S_openrouter \o S_slash \o S_openai \o S_slash \o baseModel>>
        ELSE <<>>)

RECURSIVE AddPrefixed(_, _, _, _)
AddPrefixed(candidates, entry, provider, baseModels) ==
    IF baseModels = <<>> THEN candidates
    ELSE AddPrefixed(SetAddAll(candidates, PrefixedCandidates(entry, provider, Head(baseModels))),
                     entry, provider, Tail(baseModels))

PricingCandidates(entry) ==
    LET model == Trim(entry.model)
        provider == IF IsNullish(entry.provider) THEN JUndefined
                    ELSE StringOf(Trim(entry.provider.chars))
        baseModels == ModelVariants(model)
    IN  AddPrefixed(baseModels, entry, provider, baseModels)

\* pricingMap[key]: the value of the catalog's own property key, or undefined
Lookup(pricingMap, key) ==
    LET hit == {i \in 1..Len(pricingMap.entries) : pricingMap.entries[i].key = key} IN
    IF hit = {} THEN JUndefined
    ELSE pricingMap.entries[CHOOSE i \in hit : TRUE].value

\* for (const candidate of candidates) { match = pricingMap[candidate]; ... }
RECURSIVE ExactMatch(_, _)
ExactMatch(pricingMap, candidates) ==
    IF candidates = <<>> THEN JNull
    ELSE LET match == Lookup(pricingMap, Head(candidates)) IN
         IF ~IsNullish(match) THEN match
         ELSE ExactMatch(pricingMap, Tail(candidates))

\* for ([key, value] of Object.entries(pricingMap)) for (suffix of suffixes) ...
RECURSIVE SuffixMatch(_, _)
SuffixMatch(entries, suffixes) ==
    IF entries = <<>> THEN [found |-> FALSE, value |-> JNull]
    ELSE IF \E i \in 1..Len(suffixes) : EndsWith(Head(entries).key, suffixes[i])
    THEN [found |-> TRUE, value |-> Head(entries).value]
    ELSE SuffixMatch(Tail(entries), suffixes)

NoBest == [score |-> -1, pricing |-> JNull]

\* FuzzyMatch taking the first key that matches, whatever its score
FuzzyMatchFirst(entries, modelLower, best) ==
    LET matching == {i \in 1..Len(entries) :
                        \/ Includes(ToLowerCase(entries[i].key), modelLower)
                        \/ Includes(modelLower, ToLowerCase(entries[i].key))}
    IN  IF matching = {} THEN best
        ELSE LET first == CHOOSE i \in matching : \A j \in matching : i <= j IN
             [score |-> Len(entries[first].key), pricing |-> entries[first].value]

\* FuzzyMatch replacing the best match on an equal score (score >= best.score)
FuzzyMatchLastWins(entries, modelLower, best) ==
    LET matching == {i \in 1..Len(entries) :
                        \/ Includes(ToLowerCase(entries[i].key), modelLower)
                        \/ Includes(modelLower, ToLowerCase(entries[i].key))}
        scoreOf(i) == IF Len(modelLower) < Len(entries[i].key) THEN Len(modelLower)
                      ELSE Len(entries[i].key)
    IN  IF matching = {} THEN best
        ELSE LET last == CHOOSE i \in matching :
                             \A j \in matching :
                                 scoreOf(j) < scoreOf(i) \/ (scoreOf(j) = scoreOf(i) /\ j <= i)
             IN  [score |-> scoreOf(last), pricing |-> entries[last].value]

\* the loop of the fuzzy fallback: best is null (NoBest) or { score, pricing }
RECURSIVE FuzzyMatch(_, _, _)
FuzzyMatch(entries, modelLower, best) ==
    IF entries = <<>> THEN best
    ELSE LET keyLower == ToLowerCase(Head(entries).key)
             isMatch == Includes(keyLower, modelLower) \/ Includes(modelLower, keyLower)
             score == IF Len(modelLower) < Len(keyLower) THEN Len(modelLower)
                      ELSE Len(keyLower)
         IN  IF ~isMatch THEN FuzzyMatch(Tail(entries), modelLower, best)
             ELSE IF best = NoBest \/ score > best.score
             THEN FuzzyMatch(Tail(entries), modelLower,
                             [score |-> score, pricing |-> Head(entries).value])
             ELSE FuzzyMatch(Tail(entries), modelLower, best)

\* ResolvePricing scanning for a suffix match before the exact lookup
ResolvePricingSuffixFirst(pricingMap, entry) ==
    LET candidates == PricingCandidates(entry)
        suffixes == [i \in 1..Len(candidates) |-> S_slash \o candidates[i]]
        bySuffix == SuffixMatch(pricingMap.entries, suffixes)
    IN  IF bySuffix.found THEN bySuffix.value
        ELSE
        LET exact == ExactMatch(pricingMap, candidates) IN
        IF ~IsNullish(exact) THEN exact
        ELSE
        LET modelLower == ToLowerCase(Trim(entry.model))
            best == FuzzyMatch(pricingMap.entries, modelLower, NoBest)
        IN  IF best # NoBest THEN best.pricing ELSE JNull

ResolvePricing(pricingMap, entry) ==
    LET candidates == PricingCandidates(entry)
        exact == ExactMatch(pricingMap, candidates)
    IN  IF ~IsNullish(exact) THEN exact
        ELSE
        LET suffixes == [i \in 1..Len(candidates) |-> S_slash \o candidates[i]]
            bySuffix == SuffixMatch(pricingMap.entries, suffixes)
        IN  IF bySuffix.found THEN bySuffix.value
            ELSE
            LET modelLower == ToLowerCase(Trim(entry.model))
                best == FuzzyMatch(pricingMap.entries, modelLower, NoBest)
            IN  IF best # NoBest THEN best.pricing ELSE JNull

(***************************************************************************)
(* The tiered cost calculator (src/src/pricing.ts).  A number is finite    *)
(* with an integer value v, or NaN, Infinity or -Infinity.                 *)
(***************************************************************************)
Num(v) == [t |-> "number", num |-> "finite", v |-> v]
NaN == [t |-> "number", num |-> "NaN", v |-> 0]
PosInfinity == [t |-> "number", num |-> "Infinity", v |-> 0]
NegInfinity == [t |-> "number", num |-> "-Infinity", v |-> 0]

\* Number.isFinite(value)
NumberIsFinite(value) ==
    value.t = "number" /\ "num" \in DOMAIN value /\ value.num = "finite"

DEFAULT_THRESHOLD == 200000

SafeCost(value) ==
    IF TypeOf(value) = "number" /\ NumberIsFinite(value) THEN value ELSE Num(0)

Min(a, b) == IF a < b THEN a ELSE b
Max(a, b) == IF a > b THEN a ELSE b

\* CalculateTieredCost billing every token at the high rate above the threshold
CalculateTieredCostAllHigh(totalTokens, basePrice, tieredPrice, thresholdArg) ==
    LET threshold == IF thresholdArg.t = "undefined" THEN Num(DEFAULT_THRESHOLD)
                     ELSE thresholdArg
    IN  IF ~NumberIsFinite(totalTokens) \/ totalTokens.v <= 0 THEN Num(0)
        ELSE
        LET base == SafeCost(basePrice)
            tiered == SafeCost(tieredPrice)
        IN  IF totalTokens.v > threshold.v /\ tiered.v > 0
            THEN Num(totalTokens.v * tiered.v)
            ELSE Num(totalTokens.v * base.v)

CalculateTieredCost(totalTokens, basePrice, tieredPrice, thresholdArg) ==
    LET threshold == IF thresholdArg.t = "undefined" THEN Num(DEFAULT_THRESHOLD)
                     ELSE thresholdArg
    IN  IF ~NumberIsFinite(totalTokens) \/ totalTokens.v <= 0 THEN Num(0)
        ELSE
        LET base == SafeCost(basePrice)
            tiered == SafeCost(tieredPrice)
        IN  IF totalTokens.v > threshold.v /\ tiered.v > 0
            THEN LET below == Min(totalTokens.v, threshold.v)
                     above == Max(0, totalTokens.v - threshold.v)
                 IN  Num(below * base.v + above * tiered.v)
            ELSE Num(totalTokens.v * base.v)

(***************************************************************************)
(* The cost estimate of one usage entry (src/src/pricing.ts).  The token   *)
(* fields of an entry are integers: the loaders only store finite numbers. *)
(***************************************************************************)
\* the token counts the estimate bills, with codex input billed like the others
BilledTokensFullInput(entry) ==
    [cacheRead |-> Max(entry.cacheReadTokens, 0),
     nonCachedInput |-> Max(entry.inputTokens, 0),
     cacheWrite |-> Max(entry.cacheWriteTokens, 0),
     output |-> Max(entry.outputTokens
                    + (IF entry.source = "codex" THEN entry.reasoningOutputTokens ELSE 0),
                    0)]

\* the four token counts estimateEntryCostUSD hands to calculateTieredCost
BilledTokens(entry) ==
    LET isCodexLikeInput == entry.source = "codex"
        cacheRead == IF isCodexLikeInput
                     THEN Max(Min(entry.cacheReadTokens, entry.inputTokens), 0)
                     ELSE Max(entry.cacheReadTokens, 0)
        nonCachedInput == IF isCodexLikeInput
                          THEN Max(entry.inputTokens - cacheRead, 0)
                          ELSE Max(entry.inputTokens, 0)
    IN  [cacheRead |-> cacheRead,
         nonCachedInput |-> nonCachedInput,
         cacheWrite |-> Max(entry.cacheWriteTokens, 0),
         output |-> Max(entry.outputTokens
                        + (IF entry.source = "codex" THEN entry.reasoningOutputTokens
                           ELSE 0),
                        0)]

\* estimateEntryCostUSD from the record that resolvePricing returned
EstimateWithPricing(pricing, entry) ==
    IF IsNullish(pricing) THEN JNull
    ELSE
    LET billed == BilledTokens(entry)
        total ==
            Num(CalculateTieredCost(Num(billed.nonCachedInput),
                                    Prop(pricing, "input_cost_per_token"),
                                    Prop(pricing, "input_cost_per_token_above_200k_tokens"),
                                    JUndefined).v
                + CalculateTieredCost(Num(billed.output),
                                      Prop(pricing, "output_cost_per_token"),
                                      Prop(pricing, "output_cost_per_token_above_200k_tokens"),
                                      JUndefined).v
                + CalculateTieredCost(Num(billed.cacheWrite),
                                      Prop(pricing, "cache_creation_input_token_cost"),
                                      Prop(pricing,
                                           "cache_creation_input_token_cost_above_200k_tokens"),
                                      JUndefined).v
                + CalculateTieredCost(Num(billed.cacheRead),
                                      Prop(pricing, "cache_read_input_token_cost"),
                                      Prop(pricing,
                                           "cache_read_input_token_cost_above_200k_tokens"),
                                      JUndefined).v)
    IN  IF NumberIsFinite(total) THEN total ELSE JNull

EstimateEntryCostUSD(pricingMap, entry) ==
    EstimateWithPricing(ResolvePricing(pricingMap, entry), entry)

(***************************************************************************)
(* The monthly aggregation (src/src/reporting/aggregate.ts).  A timestamp  *)
(* is a day number: the days of the aggregated month are 1..DaysInMonth,   *)
(* day 0 is the last day of the month before and DaysInMonth + 1 the first *)
(* day of the month after.                                                 *)
(***************************************************************************)
ParseMonthWindow ==
    [start |-> 1, endExclusive |-> DaysInMonth + 1, daysInMonth |-> DaysInMonth]

MonthContainsDate(month, date) == date >= month.start /\ date < month.endExclusive

\* date.getDate() - 1, for a date of the aggregated month
MonthDayIndex(date) == date - 1

TotalTokens(entry) ==
    entry.inputTokens + entry.outputTokens + entry.cacheReadTokens + entry.cacheWriteTokens

EmptyBucket == [costUSD |-> 0, tokens |-> 0, entryCount |-> 0, unknownCostEntries |-> 0]

\* dayBuckets[index] of the zero-based array is buckets[index + 1]
MakeEmptyDayBuckets(daysInMonth) == [d \in 1..daysInMonth |-> EmptyBucket]

\* bucket.entryCount += 1; bucket.tokens += totalTokens(entry)
CountEntry(bucket, entry) ==
    [bucket EXCEPT !.entryCount = @ + 1, !.tokens = @ + TotalTokens(entry)]

\* the bucket after the estimate of an entry without a known cost
AddEstimate(bucket, estimated) ==
    IF IsNullish(estimated)
    THEN [bucket EXCEPT !.unknownCostEntries = @ + 1]
    ELSE [bucket EXCEPT !.costUSD = @ + estimated.v]

\* what the loop body does to the bucket of an entry, estimating every
\* entry, known cost or not
AddToBucketEstimateAlways(bucket, entry, pricingMap, shouldComputeCost) ==
    IF ~shouldComputeCost THEN CountEntry(bucket, entry)
    ELSE AddEstimate(CountEntry(bucket, entry), EstimateEntryCostUSD(pricingMap, entry))

\* what the loop body does to the bucket of an entry
AddToBucket(bucket, entry, pricingMap, shouldComputeCost) ==
    IF ~shouldComputeCost THEN CountEntry(bucket, entry)
    ELSE IF ~IsNullish(entry.costUSD) /\ NumberIsFinite(entry.costUSD)
    THEN [CountEntry(bucket, entry) EXCEPT !.costUSD = @ + entry.costUSD.v]
    ELSE AddEstimate(CountEntry(bucket, entry), EstimateEntryCostUSD(pricingMap, entry))

\* the body of the loop over the entries
AddEntry(buckets, monthWindow, entry, pricingMap, shouldComputeCost) ==
    IF ~MonthContainsDate(monthWindow, entry.timestamp) THEN buckets
    ELSE IF MonthDayIndex(entry.timestamp) + 1 \notin DOMAIN buckets THEN buckets
    ELSE [buckets EXCEPT ![MonthDayIndex(entry.timestamp) + 1] =
             AddToBucket(@, entry, pricingMap, shouldComputeCost)]

RECURSIVE AddEntries(_, _, _, _, _)
AddEntries(buckets, monthWindow, entries, pricingMap, shouldComputeCost) ==
    IF entries = <<>> THEN buckets
    ELSE AddEntries(AddEntry(buckets, monthWindow, Head(entries), pricingMap,
                             shouldComputeCost),
                    monthWindow, Tail(entries), pricingMap, shouldComputeCost)

\* the sum of one field over the buckets 1..n
RECURSIVE SumBuckets(_, _, _)
SumBuckets(buckets, field, n) ==
    IF n = 0 THEN 0 ELSE SumBuckets(buckets, field, n - 1) + buckets[n][field]

\* the summary returned for the buckets the loop has filled
SourceSummary(source, dayBuckets) ==
    [source |-> source,
     dayBuckets |-> dayBuckets,
     totalCostUSD |-> SumBuckets(dayBuckets, "costUSD", Len(dayBuckets)),
     totalTokens |-> SumBuckets(dayBuckets, "tokens", Len(dayBuckets)),
     totalEntries |-> SumBuckets(dayBuckets, "entryCount", Len(dayBuckets)),
     unknownCostEntries |-> SumBuckets(dayBuckets, "unknownCostEntries", Len(dayBuckets))]

AggregateSourceSummary(source, entries, pricingMap, shouldComputeCost) ==
    SourceSummary(source,
                  AddEntries(MakeEmptyDayBuckets(ParseMonthWindow.daysInMonth),
                             ParseMonthWindow, entries, pricingMap, shouldComputeCost))

(***************************************************************************)
(* The log loaders (src/src/reporting/aggregate.ts).  A parsed line is a   *)
(* JSON value; a JSON object is a record with t = "object" and its own     *)
(* properties as fields.                                                   *)
(***************************************************************************)
\* before the first line of a file; nothing pushed for a line
NoLine == JUndefined
NoEntry == [pushed |-> FALSE, raw |-> JNull]
NoTokens == [inputTokens |-> 0, outputTokens |-> 0, reasoningOutputTokens |-> 0]

AsRecord(value) == IF value.t = "object" THEN value ELSE JNull

\* the trimmed string, or undefined for a non-string and for a blank string;
\* a string whose characters are not modelled is not blank and not padded
AsTrimmedString(value) ==
    IF value.t # "string" THEN JUndefined
    ELSE IF "chars" \notin DOMAIN value THEN value
    ELSE IF Trim(value.chars) = <<>> THEN JUndefined
    ELSE StringOf(Trim(value.chars))

\* the first of the values that asTrimmedString keeps, or undefined
RECURSIVE FirstTrimmed(_)
FirstTrimmed(values) ==
    IF values = <<>> THEN JUndefined
    ELSE LET text == AsTrimmedString(Head(values)) IN
         IF ~IsNullish(text) THEN text ELSE FirstTrimmed(Tail(values))

RECURSIVE ExtractModel(_)
ExtractModel(value) ==
    LET record == AsRecord(value) IN
    IF IsNullish(record) THEN JUndefined
    ELSE
    LET direct == FirstTrimmed(<<Prop(record, "model"), Prop(record, "model_name"),
                                 Prop(record, "modelID"), Prop(record, "modelId"),
                                 Prop(record, "model_name_for_display")>>)
    IN  IF ~IsNullish(direct) THEN direct
        ELSE
        LET infoModel == ExtractModel(Prop(record, "info")) IN
        IF ~IsNullish(infoModel) THEN infoModel
        ELSE
        LET metadataRecord == AsRecord(Prop(record, "metadata")) IN
        IF IsNullish(metadataRecord) THEN JUndefined
        ELSE AsTrimmedString(Prop(metadataRecord, "model"))

\* normalizeNumber, as an integer: the value if it is a finite number, else 0
NormalizeNumber(value) ==
    IF TypeOf(value) = "number" /\ NumberIsFinite(value) THEN value.v ELSE 0

\* a ?? b
Coalesce(a, b) == IF IsNullish(a) THEN b ELSE a

NormalizeCodexRawUsage(value) ==
    LET record == AsRecord(value) IN
    IF IsNullish(record) THEN JNull
    ELSE
    LET input == NormalizeNumber(Prop(record, "input_tokens"))
        cached == NormalizeNumber(Coalesce(Prop(record, "cached_input_tokens"),
                                           Prop(record, "cache_read_input_tokens")))
        output == NormalizeNumber(Prop(record, "output_tokens"))
        reasoning == NormalizeNumber(Prop(record, "reasoning_output_tokens"))
        total == NormalizeNumber(Prop(record, "total_tokens"))
    IN  [t |-> "object",
         input_tokens |-> input,
         cached_input_tokens |-> cached,
         output_tokens |-> output,
         reasoning_output_tokens |-> reasoning,
         total_tokens |-> IF total > 0 THEN total ELSE input + output]

\* previous?.field ?? 0
PreviousField(previous, field) == IF IsNullish(previous) THEN 0 ELSE previous[field]

\* SubtractCodexUsage without the clamp at 0
SubtractCodexUsageSigned(current, previous) ==
    [t |-> "object",
     input_tokens |-> current.input_tokens - PreviousField(previous, "input_tokens"),
     cached_input_tokens |->
         current.cached_input_tokens - PreviousField(previous, "cached_input_tokens"),
     output_tokens |-> current.output_tokens - PreviousField(previous, "output_tokens"),
     reasoning_output_tokens |->
         current.reasoning_output_tokens
             - PreviousField(previous, "reasoning_output_tokens"),
     total_tokens |-> current.total_tokens - PreviousField(previous, "total_tokens")]

SubtractCodexUsage(current, previous) ==
    [t |-> "object",
     input_tokens |->
         Max(current.input_tokens - PreviousField(previous, "input_tokens"), 0),
     cached_input_tokens |->
         Max(current.cached_input_tokens - PreviousField(previous, "cached_input_tokens"), 0),
     output_tokens |->
         Max(current.output_tokens - PreviousField(previous, "output_tokens"), 0),
     reasoning_output_tokens |->
         Max(current.reasoning_output_tokens
                 - PreviousField(previous, "reasoning_output_tokens"), 0),
     total_tokens |->
         Max(current.total_tokens - PreviousField(previous, "total_tokens"), 0)]

S_event_msg == <<"e", "v", "e", "n", "t", "_", "m", "s", "g">>
S_turn_context == <<"t", "u", "r", "n", "_", "c", "o", "n", "t", "e", "x", "t">>
S_token_count == <<"t", "o", "k", "e", "n", "_", "c", "o", "u", "n", "t">>

\* what one pass of the loop over the lines of a session file leaves behind
CodexStep(totals, model, entry) ==
    [previousTotals |-> totals, currentModel |-> model, entry |-> entry]

\* the usage of a token_count event: the delta from the baseline when the
\* event carries a cumulative total, else its last usage, else null
RawUsageOf(totalUsage, lastUsage, totals) ==
    IF ~IsNullish(totalUsage) THEN SubtractCodexUsage(totalUsage, totals)
    ELSE IF ~IsNullish(lastUsage) THEN lastUsage
    ELSE JNull

\* IsEmptyUsage that keeps every usage
IsEmptyUsageNever(inputTokens, outputTokens, cacheReadTokens, reasoningOutputTokens) ==
    FALSE

\* the test that drops a usage without tokens
IsEmptyUsage(inputTokens, outputTokens, cacheReadTokens, reasoningOutputTokens) ==
    inputTokens + outputTokens + cacheReadTokens + reasoningOutputTokens = 0

\* CacheReadTokens without the cap at the input tokens
CacheReadTokensUncapped(rawUsage) == rawUsage.cached_input_tokens

\* the cache-read tokens of an entry
CacheReadTokens(rawUsage) == Min(rawUsage.cached_input_tokens, rawUsage.input_tokens)

\* CodexModel that falls back to the default without looking at currentModel
CodexModelDefaultOnly(modelFromPayload, model) ==
    Coalesce(modelFromPayload, StringOf(S_gpt5))

\* modelFromPayload ?? currentModel ?? 'gpt-5'
CodexModel(modelFromPayload, model) ==
    Coalesce(modelFromPayload, Coalesce(model, StringOf(S_gpt5)))

\* the part of the loop body that handles a token_count event whose
\* timestamp is valid
CodexUsageEvent(totals, model, payload, date) ==
    LET info == AsRecord(Prop(payload, "info"))
        lastUsage == NormalizeCodexRawUsage(OptProp(info, "last_token_usage"))
        totalUsage == NormalizeCodexRawUsage(OptProp(info, "total_token_usage"))
        rawUsage == RawUsageOf(totalUsage, lastUsage, totals)
        totals2 == IF ~IsNullish(totalUsage) THEN totalUsage ELSE totals
    IN  IF IsNullish(rawUsage) THEN CodexStep(totals2, model, NoEntry)
        ELSE
        LET modelFromPayload == Coalesce(ExtractModel(payload), ExtractModel(info))
            model2 == IF ~IsNullish(modelFromPayload) THEN modelFromPayload ELSE model
            entryModel == CodexModel(modelFromPayload, model2)
            inputTokens == rawUsage.input_tokens
            cacheReadTokens == CacheReadTokens(rawUsage)
            outputTokens == rawUsage.output_tokens
            reasoningOutputTokens == rawUsage.reasoning_output_tokens
        IN  IF IsEmptyUsage(inputTokens, outputTokens, cacheReadTokens,
                            reasoningOutputTokens)
            THEN CodexStep(totals2, model2, [pushed |-> FALSE, raw |-> rawUsage])
            ELSE CodexStep(totals2, model2,
                     [pushed |-> TRUE, raw |-> rawUsage,
                      entry |-> [source |-> "codex",
                                 timestamp |-> date,
                                 model |-> entryModel.chars,
                                 inputTokens |-> inputTokens,
                                 outputTokens |-> outputTokens,
                                 cacheReadTokens |-> cacheReadTokens,
                                 cacheWriteTokens |-> 0,
                                 reasoningOutputTokens |-> reasoningOutputTokens,
                                 costUSD |-> JNull]])

\* the body of the loop over the lines of one session file
CodexLineStep(totals, model, parsedLine) ==
    LET lineRecord == AsRecord(parsedLine) IN
    IF IsNullish(lineRecord) THEN CodexStep(totals, model, NoEntry)
    ELSE
    LET type == AsTrimmedString(Prop(lineRecord, "type")) IN
    IF type = StringOf(S_turn_context)
    THEN LET ctx == ExtractModel(Prop(lineRecord, "payload")) IN
         CodexStep(totals, IF ~IsNullish(ctx) THEN ctx ELSE model, NoEntry)
    ELSE IF type # StringOf(S_event_msg) THEN CodexStep(totals, model, NoEntry)
    ELSE
    LET payload == AsRecord(Prop(lineRecord, "payload")) IN
    IF IsNullish(payload)
       \/ AsTrimmedString(Prop(payload, "type")) # StringOf(S_token_count)
    THEN CodexStep(totals, model, NoEntry)
    ELSE
    LET timestamp == AsTrimmedString(Prop(lineRecord, "timestamp")) IN
    IF IsNullish(timestamp) THEN CodexStep(totals, model, NoEntry)
    ELSE
    LET date == DateGetTime(timestamp) IN
    IF ~date.finite THEN CodexStep(totals, model, NoEntry)
    ELSE CodexUsageEvent(totals, model, payload, date.ms)

S_colon == <<":">>
S_unknown == <<"u", "n", "k", "n", "o", "w", "n">>

\* what one pass of the loop over the lines of the Claude logs leaves behind
ClaudeStep(seen, entry) == [dedupe |-> seen, entry |-> entry]

\* the body of the loop over the lines of the Claude logs
ClaudeLineStep(seen, parsedLine) ==
    LET lineRecord == AsRecord(parsedLine) IN
    IF IsNullish(lineRecord) THEN ClaudeStep(seen, NoEntry)
    ELSE
    LET messageRecord == AsRecord(Prop(lineRecord, "message"))
        usageRecord == AsRecord(OptProp(messageRecord, "usage"))
    IN
    IF IsNullish(usageRecord) THEN ClaudeStep(seen, NoEntry)
    ELSE
    LET timestamp == AsTrimmedString(Prop(lineRecord, "timestamp")) IN
    IF IsNullish(timestamp) THEN ClaudeStep(seen, NoEntry)
    ELSE
    LET date == DateGetTime(timestamp) IN
    IF ~date.finite THEN ClaudeStep(seen, NoEntry)
    ELSE
    LET messageId == AsTrimmedString(OptProp(messageRecord, "id"))
        requestId == AsTrimmedString(Prop(lineRecord, "requestId"))
        keyed == ~IsNullish(messageId) /\ ~IsNullish(requestId)
        key == IF keyed THEN messageId.chars \o S_colon \o requestId.chars ELSE <<>>
    IN
    IF keyed /\ key \in seen THEN ClaudeStep(seen, NoEntry)
    ELSE
    LET seen2 == IF keyed THEN seen \cup {key} ELSE seen
        inputTokens == NormalizeNumber(Prop(usageRecord, "input_tokens"))
        outputTokens == NormalizeNumber(Prop(usageRecord, "output_tokens"))
        cacheWriteTokens ==
            NormalizeNumber(Prop(usageRecord, "cache_creation_input_tokens"))
        cacheReadTokens == NormalizeNumber(Prop(usageRecord, "cache_read_input_tokens"))
    IN
    IF inputTokens + outputTokens + cacheReadTokens + cacheWriteTokens = 0
    THEN ClaudeStep(seen2, NoEntry)
    ELSE
    LET model == Coalesce(AsTrimmedString(OptProp(messageRecord, "model")),
                          Coalesce(AsTrimmedString(Prop(lineRecord, "model")),
                                   StringOf(S_unknown)))
        rawCost == Prop(lineRecord, "costUSD")
        costUSD == IF TypeOf(rawCost) = "number" /\ NumberIsFinite(rawCost) THEN rawCost
                   ELSE JNull
    IN  ClaudeStep(seen2,
            [pushed |-> TRUE, raw |-> JNull,
             entry |-> [source |-> "claude",
                        timestamp |-> date.ms,
                        model |-> model.chars,
                        inputTokens |-> inputTokens,
                        outputTokens |-> outputTokens,
                        cacheReadTokens |-> cacheReadTokens,
                        cacheWriteTokens |-> cacheWriteTokens,
                        reasoningOutputTokens |-> 0,
                        costUSD |-> costUSD]])

(***************************************************************************)
(* Catalogs used as inputs.                                                *)
(***************************************************************************)
\* the rate card stored under a catalog key
RecordOf(key) == [t |-> "object", id |-> key]

CatalogOf(keys) ==
    CatalogObject([i \in 1..Len(keys) |-> [key |-> keys[i], value |-> RecordOf(keys[i])]])

CatalogEmpty == CatalogOf(<<>>)
CatalogA == CatalogOf(<<S_openai_gpt4>>)
CatalogB == CatalogOf(<<S_gpt4, S_openai_gpt4>>)

(***************************************************************************)
(* The acquisition as a state machine: the cache file starts with any      *)
(* content, calls of loadPricingStatus and the passing of time interleave. *)
(***************************************************************************)
StampTimes ==
    {StartMs - 4 * HalfDayMs, StartMs - 2 * HalfDayMs, StartMs - HalfDayMs,
     StartMs + 4 * HalfDayMs + MaxTicks * HalfDayMs}

FetchedAtValues ==
    {JUndefined, JNull, JString, MsNumber(StartMs - HalfDayMs)}
        \cup {IsoString(ms) : ms \in StampTimes}

DataValues == {JUndefined, JNull, JNumber, CatalogEmpty, CatalogA}

InitialFiles ==
    {AbsentFile, CorruptFile}
        \cup {JsonText(v) : v \in {JNull, JNumber, JString, JArray}}
        \cup {JsonText(CacheDoc(f, d)) : f \in FetchedAtValues, d \in DataValues}

Payloads == {JNull, JNumber, JString, JArray, CatalogEmpty, CatalogB}

WellFormed(payload) == payload.t = "object"

Input(outcome, payload, write, elapsed) ==
    [outcome |-> outcome, payload |-> payload, write |-> write, elapsed |-> elapsed]

NoFetch == Input("none", JUndefined, "none", 0)

FetchInputs ==
    {Input(o, JUndefined, "none", 0) :
        o \in {"transport-error", "bad-status", "body-parse-error"}}
        \cup {Input("timeout", JUndefined, "none", FETCH_TIMEOUT_MS)}
        \cup {Input("ok", p, "none", 0) : p \in {q \in Payloads : ~WellFormed(q)}}
        \cup {Input("ok", p, w, e) : p \in {q \in Payloads : WellFormed(q)},
                                     w \in WriteOutcomes, e \in {0, FETCH_TIMEOUT_MS}}

NoCall == [offline |-> FALSE, inp |-> NoFetch, pre |-> AbsentFile, at |-> 0]

\* nothing resolved, nothing computed
Pending == [done |-> FALSE, value |-> JNull]
Done(value) == [done |-> TRUE, value |-> value]
NoInput == [given |-> FALSE]

ResolverIdle == resolveIn = NoInput /\ resolveOut = Pending
CostIdle == costIn = NoInput /\ costOut = Pending
EstimateIdle == estimateIn = NoInput /\ estimateOut = Pending
SummaryIdle == summaryIn = NoInput /\ summaryOut = Pending
VariantsIdle == variantsIn = NoInput /\ variantsOut = Pending
ReportIdle == EstimateIdle /\ SummaryIdle /\ VariantsIdle

ClaudeIdle == dedupe = {} /\ claudeLine = NoLine /\ claudeEntry = NoEntry
CodexIdle ==
    /\ codexFile = 0
    /\ previousTotals = JNull
    /\ currentModel = JUndefined
    /\ codexLine = NoLine
    /\ codexEntry = NoEntry
    /\ contextModel = JUndefined
    /\ cumulative = TRUE
    /\ emitted = NoTokens
LoaderIdle == ClaudeIdle /\ CodexIdle

Processes == {1, 2}

NoProc ==
    [pc |-> "idle", inp |-> NoFetch, cached |-> JNull, stamp |-> JNull, pos |-> 0,
     status |-> NoStatus, threw |-> FALSE]

RaceIdle ==
    /\ diskText = NoText
    /\ procs = [p \in Processes |-> NoProc]
    /\ writeOrder = <<>>

Init ==
    /\ cacheFile \in InitialFiles
    /\ now = StartMs
    /\ calls = 0
    /\ call = NoCall
    /\ status = NoStatus
    /\ threw = FALSE
    /\ netRequests = 0
    /\ cacheWrites = 0
    /\ ResolverIdle
    /\ CostIdle
    /\ ReportIdle
    /\ LoaderIdle
    /\ RaceIdle

Acquire(offline, inp) ==
    /\ calls < MaxCalls
    /\ LET r == LoadPricingStatus(cacheFile, now, offline, inp) IN
        /\ cacheFile' = r.file
        /\ status' = r.status
        /\ threw' = r.threw
        /\ netRequests' = r.requests
        /\ cacheWrites' = r.writes
    /\ now' = now + inp.elapsed
    /\ calls' = calls + 1
    /\ call' = [offline |-> offline, inp |-> inp, pre |-> cacheFile, at |-> now]
    /\ UNCHANGED <<resolverVars, costVars, reportVars, loaderVars, raceVars>>

AcquireOffline == Acquire(TRUE, NoFetch)

AcquireOnline == \E inp \in FetchInputs : Acquire(FALSE, inp)

Tick ==
    /\ now + HalfDayMs <= StartMs + MaxTicks * HalfDayMs + MaxCalls * FETCH_TIMEOUT_MS
    /\ now' = now + HalfDayMs
    /\ UNCHANGED <<cacheFile, calls, call, status, threw, netRequests, cacheWrites>>
    /\ UNCHANGED <<resolverVars, costVars, reportVars, loaderVars, raceVars>>

Next == AcquireOffline \/ AcquireOnline \/ Tick

Spec == Init /\ [][Next]_vars

AcquisitionIdle ==
    /\ cacheFile = AbsentFile
    /\ now = StartMs
    /\ calls = 0
    /\ call = NoCall
    /\ status = NoStatus
    /\ threw = FALSE
    /\ netRequests = 0
    /\ cacheWrites = 0

(***************************************************************************)
(* resolvePricing applied to every catalog of up to MaxCatalogKeys keys,   *)
(* in every key order, and every usage entry of a small universe.          *)
(***************************************************************************)
S_gpt4_turbo == S_gpt4 \o S_dash \o <<"t", "u", "r", "b", "o">>
S_x_openai_gpt4 == <<"x">> \o S_slash \o S_openai_gpt4
S_gpt5_codex_high == S_gpt5_codex \o S_dash \o S_high
S_gpt51_codex_high == S_gpt5 \o S_dot \o <<"1">> \o S_dash \o S_codex \o S_dash \o S_high

CatalogKeys ==
    {S_gpt4, S_openai_gpt4, S_x_openai_gpt4, S_gpt4_turbo, S_gpt5,
     S_openai \o S_slash \o S_gpt5_codex_high, S_gpt}

Models ==
    {<<" ">> \o S_gpt4 \o <<" ">>,
     <<"G", "P", "T", "-", "4">>,
     S_gpt4 \o S_dash \o S_latest,
     S_gpt51_codex_high,
     <<>>}

Providers == {JUndefined, StringOf(<<" ">>), StringOf(<<" ">> \o S_openai \o <<" ">>)}

SourceKinds == {"claude", "codex", "opencode"}

UsageEntries ==
    {[source |-> src, model |-> m, provider |-> p] :
        src \in SourceKinds, m \in Models, p \in Providers}

KeyOrders ==
    {ks \in UNION {[1..n -> CatalogKeys] : n \in 0..MaxCatalogKeys} :
        \A i, j \in 1..Len(ks) : i # j => ks[i] # ks[j]}

ResolveInputs ==
    {[given |-> TRUE, pricingMap |-> CatalogOf(ks), entry |-> e] :
        ks \in KeyOrders, e \in UsageEntries}

InitResolve ==
    /\ AcquisitionIdle
    /\ CostIdle
    /\ ReportIdle
    /\ LoaderIdle
    /\ RaceIdle
    /\ resolveIn \in ResolveInputs
    /\ resolveOut = Pending

Resolve ==
    /\ resolveIn.given
    /\ ~resolveOut.done
    /\ resolveOut' = Done(ResolvePricing(resolveIn.pricingMap, resolveIn.entry))
    /\ UNCHANGED <<acquisitionVars, resolveIn, costVars, reportVars, loaderVars, raceVars>>

SpecResolve == InitResolve /\ [][Resolve]_vars

(***************************************************************************)
(* resolvePricing applied to a model that only the fuzzy fallback can      *)
(* match, with bare and provider-prefixed keys in every order.             *)
(***************************************************************************)
S_gpt4_turbo_preview == S_gpt4_turbo \o S_dash \o S_preview
S_openai_gpt4_turbo == S_openai \o S_slash \o S_gpt4_turbo

FuzzyKeys == {S_gpt4, S_gpt4_turbo, S_openai_gpt4, S_openai_gpt4_turbo}

FuzzyModels ==
    {S_gpt4_turbo_preview,
     <<" ", "G", "P", "T">> \o S_dash \o <<"4">> \o S_dash
         \o <<"T", "u", "r", "b", "o">> \o S_dash \o S_preview \o <<" ">>}

FuzzyInputs ==
    {[given |-> TRUE, pricingMap |-> CatalogOf(ks),
      entry |-> [source |-> src, model |-> m, provider |-> p]] :
        ks \in {k \in UNION {[1..n -> FuzzyKeys] : n \in 0..MaxCatalogKeys} :
                   \A i, j \in 1..Len(k) : i # j => k[i] # k[j]},
        src \in SourceKinds, m \in FuzzyModels,
        p \in {JUndefined, StringOf(<<" ">>)}}

InitFuzzy ==
    /\ AcquisitionIdle
    /\ CostIdle
    /\ ReportIdle
    /\ LoaderIdle
    /\ RaceIdle
    /\ resolveIn \in FuzzyInputs
    /\ resolveOut = Pending

SpecFuzzy == InitFuzzy /\ [][Resolve]_vars

(***************************************************************************)
(* resolvePricing applied to catalogs in which several keys qualify for    *)
(* the fuzzy fallback with equal and with different scores: keys contained *)
(* in the model, keys containing the model, keys in upper case, and models *)
(* no key qualifies for.                                                   *)
(***************************************************************************)
S_turbo == <<"t", "u", "r", "b", "o">>
S_GPT4_TURBO == <<"G", "P", "T">> \o S_dash \o <<"4">> \o S_dash \o <<"T", "U", "R", "B", "O">>

TierKeys ==
    {S_gpt4, S_turbo, S_gpt4_turbo, S_GPT4_TURBO, S_openai_gpt4_turbo,
     S_gpt4_turbo_preview \o S_dash \o <<"x">>}

TierModels ==
    {S_gpt4_turbo_preview,
     <<" ", "G", "P", "T">> \o S_dash \o <<"4">> \o S_dash
         \o <<"T", "u", "r", "b", "o">> \o S_dash \o S_preview \o <<" ">>,
     <<"T", "u", "r", "b">>,
     S_codex,
     <<" ">>}

TierInputs ==
    {[given |-> TRUE, pricingMap |-> CatalogOf(ks),
      entry |-> [source |-> src, model |-> m, provider |-> p]] :
        ks \in {k \in UNION {[1..n -> TierKeys] : n \in 0..MaxCatalogKeys} :
                   \A i, j \in 1..Len(k) : i # j => k[i] # k[j]},
        src \in SourceKinds, m \in TierModels,
        p \in {JUndefined, StringOf(S_openai)}}

InitTier ==
    /\ AcquisitionIdle
    /\ CostIdle
    /\ ReportIdle
    /\ LoaderIdle
    /\ RaceIdle
    /\ resolveIn \in TierInputs
    /\ resolveOut = Pending

SpecFuzzyTier == InitTier /\ [][Resolve]_vars

(***************************************************************************)
(* modelVariants applied to model strings put together from a family       *)
(* prefix, a major version, an optional minor version and a suffix, with   *)
(* and without surrounding blanks.                                         *)
(***************************************************************************)
S_claude == <<"c", "l", "a", "u", "d", "e">>
S_gemini == <<"g", "e", "m", "i", "n", "i">>
S_sonnet == <<"s", "o", "n", "n", "e", "t">>
S_pro == <<"p", "r", "o">>
S_fast == <<"f", "a", "s", "t">>

VariantPrefixes ==
    {S_gpt \o S_dash, <<"G", "P", "T">> \o S_dash, S_claude \o S_dash, S_gemini \o S_dash}

VariantMajors == {<<"3">>, <<"5">>, <<"1", "2">>}

VariantMinors == {<<>>, S_dot \o <<"1">>, S_dot \o <<"5">>}

VariantSuffixes ==
    {<<>>,
     S_dash \o S_codex,
     S_dash \o S_codex \o S_dash \o S_high,
     S_dash \o S_codex \o S_dash \o S_mini,
     S_dash \o S_codex \o S_dash \o S_fast,
     S_dash \o S_codex \o S_dash \o S_latest,
     S_dash \o S_latest,
     S_dash \o S_sonnet \o S_dash \o S_latest,
     S_dash \o S_pro \o S_dash \o S_high}

VariantInputs ==
    {[given |-> TRUE, prefix |-> p, major |-> n, minor |-> m, suffix |-> x,
      model |-> pad \o p \o n \o m \o x \o pad] :
        p \in VariantPrefixes, n \in VariantMajors, m \in VariantMinors,
        x \in VariantSuffixes, pad \in {<<>>, <<" ">>}}

InitVariants ==
    /\ AcquisitionIdle
    /\ ResolverIdle
    /\ CostIdle
    /\ EstimateIdle
    /\ SummaryIdle
    /\ LoaderIdle
    /\ RaceIdle
    /\ variantsIn \in VariantInputs
    /\ variantsOut = Pending

ExpandVariants ==
    /\ variantsIn.given
    /\ ~variantsOut.done
    /\ variantsOut' = Done(ModelVariants(variantsIn.model))
    /\ UNCHANGED <<acquisitionVars, resolverVars, costVars, estimateIn, estimateOut,
                   summaryIn, summaryOut, variantsIn, loaderVars, raceVars>>

SpecVariants == InitVariants /\ [][ExpandVariants]_vars

(***************************************************************************)
(* calculateTieredCost applied to every combination of token counts,      *)
(* rates and thresholds of a small universe.                               *)
(***************************************************************************)
TokenCounts ==
    {NaN, PosInfinity, NegInfinity}
        \cup {Num(v) : v \in {-5, 0, 1, 2, 3, 199999, 200000, 200001, 250000}}

BaseRates == {JUndefined, NaN, PosInfinity, Num(-2), Num(0), Num(3)}

HighRates == {JUndefined, NaN, NegInfinity, Num(-1), Num(0), Num(5)}

Thresholds == {JUndefined, Num(0), Num(2)}

CostInputs ==
    {[given |-> TRUE, totalTokens |-> t, basePrice |-> b, tieredPrice |-> h,
      threshold |-> th] :
        t \in TokenCounts, b \in BaseRates, h \in HighRates, th \in Thresholds}

InitCost ==
    /\ AcquisitionIdle
    /\ ResolverIdle
    /\ ReportIdle
    /\ LoaderIdle
    /\ RaceIdle
    /\ costIn \in CostInputs
    /\ costOut = Pending

Calculate ==
    /\ costIn.given
    /\ ~costOut.done
    /\ costOut' = Done(CalculateTieredCost(costIn.totalTokens, costIn.basePrice,
                                          costIn.tieredPrice, costIn.threshold))
    /\ UNCHANGED <<acquisitionVars, resolverVars, costIn, reportVars, loaderVars, raceVars>>

SpecCost == InitCost /\ [][Calculate]_vars

(***************************************************************************)
(* estimateEntryCostUSD applied to catalogs holding rate cards and to      *)
(* usage entries of every origin.  Rates are integers in units of 1e-5 USD *)
(* per token, so that 0.00003 is 3 and an estimate of 600000 is 6.0 USD.   *)
(***************************************************************************)
\* a PricingRecord without tier rates, and one with them
FlatCard == [t |-> "object",
             input_cost_per_token |-> Num(3),
             output_cost_per_token |-> Num(6),
             cache_creation_input_token_cost |-> Num(4),
             cache_read_input_token_cost |-> Num(1)]

TieredCard == [t |-> "object",
               input_cost_per_token |-> Num(3),
               output_cost_per_token |-> Num(6),
               cache_creation_input_token_cost |-> Num(4),
               cache_read_input_token_cost |-> Num(1),
               input_cost_per_token_above_200k_tokens |-> Num(5),
               output_cost_per_token_above_200k_tokens |-> Num(9),
               cache_creation_input_token_cost_above_200k_tokens |-> Num(7),
               cache_read_input_token_cost_above_200k_tokens |-> Num(2)]

\* a record that only prices input and output
SparseCard == [t |-> "object",
               input_cost_per_token |-> Num(2),
               output_cost_per_token |-> Num(8)]

CardCatalog(key, card) == CatalogObject(<<[key |-> key, value |-> card]>>)

S_openai_gpt5 == S_openai \o S_slash \o S_gpt5

RateCatalogs ==
    {CatalogEmpty,
     CardCatalog(S_openai_gpt4, FlatCard),
     CardCatalog(S_openai_gpt4, TieredCard),
     CardCatalog(S_openai_gpt5, SparseCard),
     CardCatalog(S_gpt4, SparseCard)}

InputTokenCounts == {-5, 0, 100, 100000, 250000}
CacheReadTokenCounts == {-5, 0, 40, 100, 300}
CacheWriteTokenCounts == {0, 7}
OutputTokenCounts == {0, 50, 50000, 250000}
ReasoningTokenCounts == {0, 9}

PricedEntries ==
    {[source |-> src, model |-> m, provider |-> JUndefined,
      inputTokens |-> i, outputTokens |-> o, cacheReadTokens |-> cr,
      cacheWriteTokens |-> cw, reasoningOutputTokens |-> r] :
        src \in SourceKinds, m \in {S_gpt4, S_gpt5},
        i \in InputTokenCounts, o \in OutputTokenCounts,
        cr \in CacheReadTokenCounts, cw \in CacheWriteTokenCounts,
        r \in ReasoningTokenCounts}

EstimateInputs ==
    {[given |-> TRUE, pricingMap |-> c, entry |-> e] :
        c \in RateCatalogs, e \in PricedEntries}

InitEstimate ==
    /\ AcquisitionIdle
    /\ ResolverIdle
    /\ CostIdle
    /\ SummaryIdle
    /\ VariantsIdle
    /\ LoaderIdle
    /\ RaceIdle
    /\ estimateIn \in EstimateInputs
    /\ estimateOut = Pending

Estimate ==
    /\ estimateIn.given
    /\ ~estimateOut.done
    /\ estimateOut' = Done(EstimateEntryCostUSD(estimateIn.pricingMap, estimateIn.entry))
    /\ UNCHANGED <<acquisitionVars, resolverVars, costVars, estimateIn,
                   summaryIn, summaryOut, variantsIn, variantsOut, loaderVars, raceVars>>

SpecEstimate == InitEstimate /\ [][Estimate]_vars

(***************************************************************************)
(* aggregateSourceSummary applied to every list of up to MaxEntries        *)
(* entries, with and without a known cost, inside and outside the month.   *)
(***************************************************************************)
EntryDays == {0, 1, DaysInMonth, DaysInMonth + 1}

KnownCosts == {JNull, Num(7), PosInfinity}

DatedEntries ==
    {[source |-> "codex", model |-> m, provider |-> JUndefined, timestamp |-> d,
      inputTokens |-> 100, outputTokens |-> 50, cacheReadTokens |-> 40,
      cacheWriteTokens |-> 0, reasoningOutputTokens |-> 9, costUSD |-> c] :
        m \in {S_gpt4, S_gpt5}, d \in EntryDays, c \in KnownCosts}

SummaryInputs ==
    {[given |-> TRUE, entries |-> es, pricingMap |-> c, shouldComputeCost |-> b] :
        es \in UNION {[1..n -> DatedEntries] : n \in 0..MaxEntries},
        c \in {CatalogEmpty, CardCatalog(S_openai_gpt4, FlatCard)},
        b \in BOOLEAN}

InitSummary ==
    /\ AcquisitionIdle
    /\ ResolverIdle
    /\ CostIdle
    /\ EstimateIdle
    /\ VariantsIdle
    /\ LoaderIdle
    /\ RaceIdle
    /\ summaryIn \in SummaryInputs
    /\ summaryOut = Pending

Aggregate ==
    /\ summaryIn.given
    /\ ~summaryOut.done
    /\ summaryOut' = Done(AggregateSourceSummary("codex", summaryIn.entries,
                                                 summaryIn.pricingMap,
                                                 summaryIn.shouldComputeCost))
    /\ UNCHANGED <<acquisitionVars, resolverVars, costVars, estimateIn, estimateOut,
                   summaryIn, variantsIn, variantsOut, loaderVars, raceVars>>

SpecSummary == InitSummary /\ [][Aggregate]_vars

(***************************************************************************)
(* loadCodexEntries as a state machine: the session files are read one     *)
(* after the other, each line by line.  The lines are turn_context lines   *)
(* with and without a model, token_count events with every combination of  *)
(* timestamp, cumulative total, last usage and model, and lines the loader *)
(* ignores.                                                                *)
(***************************************************************************)
JsonUsage(input, cached, cacheRead, output, reasoning, total) ==
    [t |-> "object",
     input_tokens |-> input,
     cached_input_tokens |-> cached,
     cache_read_input_tokens |-> cacheRead,
     output_tokens |-> output,
     reasoning_output_tokens |-> reasoning,
     total_tokens |-> total]

EmptyUsage == JsonUsage(JUndefined, JUndefined, JUndefined, JUndefined, JUndefined, JUndefined)

\* two cumulative snapshots of a running session, the second with a lower
\* output count, and a snapshot with malformed values
TotalA == JsonUsage(Num(10), Num(4), JUndefined, Num(5), Num(1), Num(15))
TotalB == JsonUsage(Num(30), JUndefined, Num(40), Num(4), Num(2), Num(0))
TotalMalformed == JsonUsage(JString, Num(-3), JUndefined, PosInfinity, NaN, Num(-1))

\* last usages: cached above input, a negative input, and no tokens
LastA == JsonUsage(Num(7), Num(9), JUndefined, Num(3), JUndefined, JUndefined)
LastNegative == JsonUsage(Num(-5), JUndefined, JUndefined, Num(2), JUndefined, JUndefined)

TotalUsages == {JUndefined, EmptyUsage, TotalA, TotalB, TotalMalformed}
LastUsages == {JUndefined, JNumber, EmptyUsage, LastA, LastNegative}

JsonModel(model, modelName, metadataModel) ==
    [t |-> "object", model |-> model, model_name |-> modelName,
     metadata |-> [t |-> "object", model |-> metadataModel]]

\* the payloads of turn_context lines: none, without a model, and with one
ContextPayloads ==
    {JsonModel(StringOf(<<" ">>), JNumber, JUndefined),
     JsonModel(StringOf(<<" ">> \o S_gpt5_codex \o <<" ">>), JUndefined, JUndefined),
     JsonModel(JUndefined, JUndefined, StringOf(S_gpt4_turbo))}

ContextLines ==
    {[t |-> "object", type |-> StringOf(S_turn_context), payload |-> p] :
        p \in ContextPayloads}

TokenInfo(total, last, modelName) ==
    [t |-> "object", total_token_usage |-> total, last_token_usage |-> last,
     model_name |-> modelName]

TokenPayload(model, info) ==
    [t |-> "object", type |-> StringOf(S_token_count), model |-> model, info |-> info]

\* the model of a token_count event: none, on the payload, or on its info
TokenPayloads ==
    {TokenPayload(JUndefined, JNull)}
    \cup {TokenPayload(JUndefined, TokenInfo(total, last, JUndefined)) :
              total \in TotalUsages, last \in LastUsages}
    \cup {TokenPayload(StringOf(S_gpt4), TokenInfo(total, last, JUndefined)) :
              total \in {JUndefined, TotalA, TotalB}, last \in {JUndefined, LastA}}
    \cup {TokenPayload(JUndefined, TokenInfo(TotalB, JUndefined, StringOf(S_gpt5)))}

TokenEvent(timestamp, payload) ==
    [t |-> "object", type |-> StringOf(S_event_msg), timestamp |-> timestamp,
     payload |-> payload]

\* every payload with a valid timestamp, some with an invalid or missing one
TokenLines ==
    {TokenEvent(IsoString(StartMs), p) : p \in TokenPayloads}
    \cup {TokenEvent(ts, TokenPayload(StringOf(S_gpt4), TokenInfo(total, LastA, JUndefined))) :
              ts \in {JString, JUndefined}, total \in {JUndefined, TotalB}}

\* lines the loader passes over: not an object, another type, another event
OtherLines ==
    {JArray,
     [t |-> "object", type |-> StringOf(S_gpt), payload |-> JUndefined],
     [t |-> "object", type |-> StringOf(S_event_msg), timestamp |-> IsoString(StartMs),
      payload |-> [t |-> "object", type |-> StringOf(S_turn_context)]]}

\* the lines the loader takes for token_count events, and those of them it
\* reads a usage from
IsTokenCount(line) ==
    /\ AsRecord(line) # JNull
    /\ AsTrimmedString(Prop(line, "type")) = StringOf(S_event_msg)
    /\ AsRecord(Prop(line, "payload")) # JNull
    /\ AsTrimmedString(Prop(line.payload, "type")) = StringOf(S_token_count)

IsUsageEvent(line) ==
    /\ IsTokenCount(line)
    /\ Prop(line, "timestamp").t = "string"
    /\ DateGetTime(line.timestamp).finite

\* the cumulative total and the last usage a usage event carries, or null
TotalOf(line) ==
    NormalizeCodexRawUsage(OptProp(AsRecord(Prop(line.payload, "info")),
                                   "total_token_usage"))
LastOf(line) ==
    NormalizeCodexRawUsage(OptProp(AsRecord(Prop(line.payload, "info")),
                                   "last_token_usage"))

\* the model a usage event carries itself, or undefined
OwnModel(line) == ExtractModel(line.payload)

UsageFields ==
    {"input_tokens", "cached_input_tokens", "output_tokens", "reasoning_output_tokens",
     "total_tokens"}

InitCodex ==
    /\ AcquisitionIdle
    /\ ResolverIdle
    /\ CostIdle
    /\ ReportIdle
    /\ ClaudeIdle
    /\ RaceIdle
    /\ codexFile = 1
    /\ previousTotals = JNull
    /\ currentModel = JUndefined
    /\ codexLine = NoLine
    /\ codexEntry = NoEntry
    /\ contextModel = JUndefined
    /\ cumulative = TRUE
    /\ emitted = NoTokens

\* the model a turn_context line carries, if it is one and carries one
ContextModelOf(line) ==
    IF AsRecord(line) # JNull
       /\ AsTrimmedString(Prop(line, "type")) = StringOf(S_turn_context)
    THEN ExtractModel(Prop(line, "payload"))
    ELSE JUndefined

\* whether a line keeps the file a stream of cumulative totals: it is no
\* token_count line, or it has a valid timestamp and a total that is in no
\* field below the baseline
KeepsCumulative(totals, line) ==
    IsTokenCount(line) =>
        /\ IsUsageEvent(line)
        /\ TotalOf(line) # JNull
        /\ totals # JNull => \A f \in UsageFields : TotalOf(line)[f] >= totals[f]

\* the token sums after entries.push(entry), if the line pushed one
AddEmitted(sums, entry) ==
    IF ~entry.pushed THEN sums
    ELSE [inputTokens |-> sums.inputTokens + entry.entry.inputTokens,
          outputTokens |-> sums.outputTokens + entry.entry.outputTokens,
          reasoningOutputTokens |->
              sums.reasoningOutputTokens + entry.entry.reasoningOutputTokens]

ReadCodexLine(line) ==
    /\ LET r == CodexLineStep(previousTotals, currentModel, line) IN
        /\ previousTotals' = r.previousTotals
        /\ currentModel' = r.currentModel
        /\ codexEntry' = r.entry
        /\ emitted' = IF cumulative /\ KeepsCumulative(previousTotals, line)
                      THEN AddEmitted(emitted, r.entry)
                      ELSE NoTokens
    /\ codexLine' = line
    /\ contextModel' = Coalesce(ContextModelOf(line), contextModel)
    /\ cumulative' = (cumulative /\ KeepsCumulative(previousTotals, line))
    /\ UNCHANGED <<codexFile, acquisitionVars, resolverVars, costVars, reportVars,
                   claudeVars, raceVars>>

ReadTurnContext == \E line \in ContextLines : ReadCodexLine(line)

ReadTokenCount == \E line \in TokenLines : ReadCodexLine(line)

ReadOtherLine == \E line \in OtherLines : ReadCodexLine(line)

\* the loop over the files moves on: a new baseline and a new current model
NextCodexFile ==
    /\ codexFile < MaxFiles
    /\ codexFile' = codexFile + 1
    /\ previousTotals' = JNull
    /\ currentModel' = JUndefined
    /\ codexLine' = NoLine
    /\ codexEntry' = NoEntry
    /\ contextModel' = JUndefined
    /\ cumulative' = TRUE
    /\ emitted' = NoTokens
    /\ UNCHANGED <<acquisitionVars, resolverVars, costVars, reportVars, claudeVars, raceVars>>

NextCodex == ReadTurnContext \/ ReadTokenCount \/ ReadOtherLine \/ NextCodexFile

SpecCodex == InitCodex /\ [][NextCodex]_vars

(***************************************************************************)
(* loadCodexEntries reading session files that are streams of cumulative   *)
(* snapshots: totals that grow, repeat, start at zero or below it, with    *)
(* and without a last usage beside them, between turn_context lines; and   *)
(* the lines that end such a stream: a lower total, a missing total, an    *)
(* invalid timestamp.                                                      *)
(***************************************************************************)
SnapshotNegative == JsonUsage(Num(-5), Num(0), JUndefined, Num(0), Num(-1), JUndefined)
SnapshotC == JsonUsage(Num(30), Num(4), JUndefined, Num(5), Num(2), Num(35))
SnapshotD == JsonUsage(Num(30), Num(9), JUndefined, Num(8), Num(2), Num(38))

SnapshotTotals == {SnapshotNegative, EmptyUsage, TotalA, SnapshotC, SnapshotD, TotalB}

SnapshotLines ==
    {TokenEvent(IsoString(StartMs), TokenPayload(JUndefined, TokenInfo(total, last, JUndefined))) :
        total \in SnapshotTotals, last \in {JUndefined, LastA}}
    \cup {TokenEvent(IsoString(StartMs),
                     TokenPayload(JUndefined, TokenInfo(JUndefined, LastA, JUndefined))),
          TokenEvent(JString,
                     TokenPayload(JUndefined, TokenInfo(SnapshotC, JUndefined, JUndefined)))}

ReadSnapshot == \E line \in SnapshotLines : ReadCodexLine(line)

NextStream == ReadSnapshot \/ ReadTurnContext \/ NextCodexFile

SpecCodexStream == InitCodex /\ [][NextStream]_vars

(***************************************************************************)
(* loadClaudeEntries as a state machine over the lines of the Claude logs: *)
(* usage records with well-formed, missing, non-numeric, non-finite and    *)
(* negative counts, repeated and fresh message and request ids.            *)
(***************************************************************************)
ClaudeUsage(input, output, cacheCreation, cacheRead) ==
    [t |-> "object",
     input_tokens |-> input,
     output_tokens |-> output,
     cache_creation_input_tokens |-> cacheCreation,
     cache_read_input_tokens |-> cacheRead]

ClaudeUsages ==
    {ClaudeUsage(i, o, cw, cr) :
        i \in {JUndefined, JString, PosInfinity, Num(-5), Num(0), Num(12)},
        o \in {JUndefined, Num(-8), Num(8)},
        cw \in {JUndefined, Num(3)},
        cr \in {NaN, Num(2)}}

ClaudeLineOf(timestamp, requestId, messageId, usage, model, costUSD) ==
    [t |-> "object", timestamp |-> timestamp, requestId |-> requestId,
     model |-> JUndefined, costUSD |-> costUSD,
     message |-> [t |-> "object", id |-> messageId, usage |-> usage, model |-> model]]

ClaudeUsageLines ==
    {ClaudeLineOf(IsoString(StartMs), StringOf(<<"r">>), StringOf(<<"m">>), u,
                  StringOf(S_gpt4), JUndefined) : u \in ClaudeUsages}
    \cup {ClaudeLineOf(ts, r, m, ClaudeUsage(Num(12), Num(8), JUndefined, JUndefined),
                       model, c) :
              ts \in {IsoString(StartMs), JString},
              r \in {JUndefined, StringOf(<<"r", ":", "r">>)},
              m \in {JNumber, StringOf(<<"m">>), StringOf(<<"m", ":", "r">>)},
              model \in {JUndefined, StringOf(S_gpt4)},
              c \in {JUndefined, Num(7), NaN}}

\* lines without a usage record
ClaudeOtherLines ==
    {JNull,
     [t |-> "object", timestamp |-> IsoString(StartMs), message |-> JString],
     ClaudeLineOf(IsoString(StartMs), JUndefined, JUndefined, JArray, JUndefined,
                  JUndefined)}

InitClaude ==
    /\ AcquisitionIdle
    /\ ResolverIdle
    /\ CostIdle
    /\ ReportIdle
    /\ CodexIdle
    /\ RaceIdle
    /\ dedupe = {}
    /\ claudeLine = NoLine
    /\ claudeEntry = NoEntry

ReadClaudeLine(line) ==
    /\ LET r == ClaudeLineStep(dedupe, line) IN
        /\ dedupe' = r.dedupe
        /\ claudeEntry' = r.entry
    /\ claudeLine' = line
    /\ UNCHANGED <<acquisitionVars, resolverVars, costVars, reportVars, codexVars, raceVars>>

ReadClaudeUsage == \E line \in ClaudeUsageLines : ReadClaudeLine(line)

ReadClaudeOther == \E line \in ClaudeOtherLines : ReadClaudeLine(line)

NextClaude == ReadClaudeUsage \/ ReadClaudeOther

SpecClaude == InitClaude /\ [][NextClaude]_vars

(***************************************************************************)
(* Two processes running loadPricingStatus(false) at the same time on the  *)
(* same CACHE_FILE.  Each await of a process is one step; the steps of the *)
(* two interleave in every order.  A cache write is the steps of writeFile: *)
(* the open that truncates the file, then one write per unit of the text,  *)
(* each at the position of the writer's own descriptor.  A read takes the   *)
(* file as it is at one instant.                                           *)
(***************************************************************************)
RaceInputs ==
    {Input("bad-status", JUndefined, "none", 0)}
        \cup {Input("ok", payload, w, 0) : payload \in {CatalogA, CatalogB},
                                          w \in WriteOutcomes}

RaceInitialTexts ==
    {NoText, DiskText(<<>>),
     DiskText(SerializedUnits(CacheDoc(IsoString(StartMs - HalfDayMs), CatalogA))),
     DiskText(SerializedUnits(CacheDoc(IsoString(StartMs - 4 * HalfDayMs), CatalogEmpty)))}

InitRace ==
    /\ AcquisitionIdle
    /\ ResolverIdle
    /\ CostIdle
    /\ ReportIdle
    /\ LoaderIdle
    /\ diskText \in RaceInitialTexts
    /\ procs \in [Processes -> {[NoProc EXCEPT !.pc = "readCache", !.inp = inp] :
                                     inp \in RaceInputs}]
    /\ writeOrder = <<>>

\* const cached = await readCache()
RaceReadCache(p) ==
    /\ procs[p].pc = "readCache"
    /\ LET r == ReadCache(FileOfText(diskText), now) IN
        procs' = [procs EXCEPT ![p].cached = r.value,
                               ![p].threw = r.threw,
                               ![p].pc = IF r.threw THEN "done" ELSE "fetch"]
    /\ UNCHANGED <<diskText, writeOrder>>
    /\ UNCHANGED <<acquisitionVars, resolverVars, costVars, reportVars, loaderVars>>

\* fetchLiteLLMPricing up to the call of writeCache: the request, the status
\* test, response.json() and the shape test; every failure ends in return null
RaceFetch(p) ==
    /\ procs[p].pc = "fetch"
    /\ LET inp == procs[p].inp
           parsed == inp.payload
           data == IF inp.outcome # "ok" THEN JNull
                   ELSE IF IsNullish(parsed) \/ TypeOf(parsed) # "object"
                           \/ parsed.t = "array"
                   THEN JNull
                   ELSE parsed
       IN  procs' = [procs EXCEPT ![p].pc = IF IsNullish(data) THEN "fallback" ELSE "open"]
    /\ UNCHANGED <<diskText, writeOrder>>
    /\ UNCHANGED <<acquisitionVars, resolverVars, costVars, reportVars, loaderVars>>

\* writeCache: the payload document is stamped, then writeJsonFile makes the
\* directory and writeFile opens the file; a rejection is caught by
\* fetchLiteLLMPricing, which returns null
RaceOpen(p) ==
    /\ procs[p].pc = "open"
    /\ IF procs[p].inp.write = "failed-untouched"
       THEN /\ procs' = [procs EXCEPT ![p].stamp = ToISOString(now), ![p].pc = "fallback"]
            /\ UNCHANGED diskText
       ELSE /\ procs' = [procs EXCEPT ![p].stamp = ToISOString(now), ![p].pos = 0,
                                      ![p].pc = "write"]
            /\ diskText' = OpenTruncate(diskText)
    /\ UNCHANGED writeOrder
    /\ UNCHANGED <<acquisitionVars, resolverVars, costVars, reportVars, loaderVars>>

\* writeFile writes the next unit of the text; after the last one writeCache
\* resolves, fetchLiteLLMPricing returns the payload and loadPricingStatus
\* returns it as remote
RaceWrite(p) ==
    /\ procs[p].pc = "write"
    /\ LET units == SerializedUnits(CacheDoc(procs[p].stamp, procs[p].inp.payload))
           fetched == procs[p].inp.payload
       IN  IF procs[p].inp.write = "failed-truncated"
           THEN /\ procs' = [procs EXCEPT ![p].pc = "fallback"]
                /\ UNCHANGED <<diskText, writeOrder>>
           ELSE /\ diskText' = WriteUnit(diskText, procs[p].pos, units[procs[p].pos + 1])
                /\ IF procs[p].pos + 1 < Len(units)
                   THEN /\ procs' = [procs EXCEPT ![p].pos = @ + 1]
                        /\ UNCHANGED writeOrder
                   ELSE /\ procs' =
                               [procs EXCEPT
                                   ![p].pos = @ + 1,
                                   ![p].status =
                                       PricingStatus(fetched, ObjectKeysLength(fetched) = 0,
                                                     "remote"),
                                   ![p].pc = "done"]
                        /\ writeOrder' = Append(writeOrder, p)
    /\ UNCHANGED <<acquisitionVars, resolverVars, costVars, reportVars, loaderVars>>

\* the rest of loadPricingStatus once fetched is null: the snapshot read at
\* the start if it was fresh, else the file as it is now, else unavailable
RaceFallback(p) ==
    /\ procs[p].pc = "fallback"
    /\ LET r == LoadOnline(FileOfText(diskText), now, procs[p].cached,
                           Input("bad-status", JUndefined, "none", 0))
       IN  procs' = [procs EXCEPT ![p].status = r.status, ![p].threw = r.threw,
                                  ![p].pc = "done"]
    /\ UNCHANGED <<diskText, writeOrder>>
    /\ UNCHANGED <<acquisitionVars, resolverVars, costVars, reportVars, loaderVars>>

NextRace ==
    \/ \E p \in Processes : RaceReadCache(p)
    \/ \E p \in Processes : RaceFetch(p)
    \/ \E p \in Processes : RaceOpen(p)
    \/ \E p \in Processes : RaceWrite(p)
    \/ \E p \in Processes : RaceFallback(p)

SpecRace == InitRace /\ [][NextRace]_vars

(***************************************************************************)
(* Properties of the acquisition.  They speak of the last call made: its   *)
(* inputs and the file it found are in `call`, its result in `status`.     *)
(***************************************************************************)
Called == calls > 0
Offline == Called /\ call.offline
Online == Called /\ ~call.offline

\* a well-formed object payload was received
PayloadReceived ==
    Online /\ call.inp.outcome = "ok" /\ call.inp.payload.t = "object"

\* the request ended in one of the ways the spec counts as a fetch failure
FetchFailed ==
    Online /\ (\/ call.inp.outcome \in {"bad-status", "transport-error", "timeout",
                                        "body-parse-error"}
               \/ call.inp.outcome = "ok" /\ call.inp.payload.t # "object")

\* fetchLiteLLMPricing gave the caller nothing: the fetch failed or the
\* received payload could not be persisted
NothingFetched ==
    FetchFailed \/ (PayloadReceived /\ call.inp.write # "written")

\* the file parses to a document with a data field that is not null
HasData(file) ==
    /\ file.exists /\ file.parses
    /\ file.value.t = "object" /\ "data" \in DOMAIN file.value
    /\ file.value.data.t \notin {"undefined", "null"}

\* the time the document's fetchedAt denotes, when it denotes one
StampParses(file) == DateGetTime(file.value.fetchedAt).finite
StampMs(file) == DateGetTime(file.value.fetchedAt).ms

Abs(n) == IF n < 0 THEN -n ELSE n

SixTags ==
    {"fresh-cache", "remote", "stale-cache", "offline-cache", "offline-empty",
     "unavailable"}

\* C1: with offline = false a request is made on every acquisition; the result
\* is the received payload tagged remote whenever a well-formed object payload
\* is received, whether or not the cache write succeeds, and a cache tier
\* otherwise.
C1_RemoteWheneverPayloadReceived ==
    Online =>
        /\ netRequests = 1
        /\ IF PayloadReceived
           THEN status.source = "remote" /\ status.pricingMap = call.inp.payload
           ELSE status.source \in {"fresh-cache", "stale-cache", "unavailable"}

\* C2 as stated: after a failed fetch the result is fresh-cache exactly when
\* the file read before the fetch has data and a fetchedAt that parses and
\* lies within 24 hours of the current time, in either direction.
C2_FreshIffWithinWindowEitherSide ==
    NothingFetched =>
        (status.source = "fresh-cache" <=>
            /\ HasData(call.pre)
            /\ StampParses(call.pre)
            /\ Abs(call.at - StampMs(call.pre)) < CACHE_MAX_AGE_MS)

\* C2 amended: after a failed fetch the result is fresh-cache, with the data
\* of the file read before the fetch, exactly when that file has data and a
\* fetchedAt that parses to a time later than 24 hours before the current
\* time; a fetchedAt in the future counts as fresh.
C2_FreshIffYoungerThanMaxAge ==
    NothingFetched =>
        /\ status.source = "fresh-cache" <=>
              /\ HasData(call.pre)
              /\ StampParses(call.pre)
              /\ call.at - StampMs(call.pre) < CACHE_MAX_AGE_MS
        /\ status.source = "fresh-cache" =>
              /\ status.pricingMap = call.pre.value.data
              /\ status.isEmpty = (ObjectKeysLength(status.pricingMap) = 0)

\* C2 witness: a failed fetch answered from a cache 12 hours old
C2_Witness ==
    /\ FetchFailed
    /\ status.source = "fresh-cache"
    /\ HasData(call.pre) /\ StampParses(call.pre)
    /\ call.at - StampMs(call.pre) = HalfDayMs

\* the file read before the fetch was not a fresh cache
NoFreshCache ==
    ~(/\ HasData(call.pre) /\ StampParses(call.pre)
      /\ call.at - StampMs(call.pre) < CACHE_MAX_AGE_MS)

\* C3: after a failed fetch with no fresh cache the result is the data of the
\* re-read file tagged stale-cache if that file has data, whatever its
\* fetchedAt, and otherwise an empty catalog with isEmpty tagged unavailable.
C3_StaleElseUnavailable ==
    (NothingFetched /\ NoFreshCache) =>
        IF HasData(cacheFile)
        THEN /\ status.source = "stale-cache"
             /\ status.pricingMap = cacheFile.value.data
             /\ status.isEmpty = (ObjectKeysLength(status.pricingMap) = 0)
        ELSE /\ status.source = "unavailable"
             /\ status.pricingMap = CatalogEmpty
             /\ status.isEmpty

\* C3 witness: a failed fetch answered from a cache two days old
C3_Witness ==
    /\ FetchFailed
    /\ status.source = "stale-cache"
    /\ status.pricingMap = CatalogA
    /\ StampParses(call.pre)
    /\ call.at - StampMs(call.pre) >= 2 * CACHE_MAX_AGE_MS

\* C4: an offline acquisition issues no network request, whatever the file holds.
C4_OfflineNoNetwork ==
    Offline => netRequests = 0

\* C4 witness: an offline acquisition over a fresh, populated cache
C4_Witness ==
    /\ Offline
    /\ HasData(call.pre) /\ StampParses(call.pre)
    /\ call.at - StampMs(call.pre) < CACHE_MAX_AGE_MS
    /\ status.source = "offline-cache"

C7_WriteOnlyOnFetchSuccess ==
    Called =>
        /\ cacheWrites <= 1
        /\ cacheWrites = 1 => PayloadReceived
        /\ (Offline \/ FetchFailed) => (cacheWrites = 0 /\ cacheFile = call.pre)

\* C7 witness: a malformed payload arrived while the file held a catalog
C7_Witness ==
    /\ Online
    /\ call.inp.outcome = "ok" /\ call.inp.payload = JArray
    /\ HasData(call.pre)
    /\ cacheFile = call.pre

\* C8: a call that returns remote with catalog C leaves the file holding
\* { fetchedAt: the time of the write, data: C }, and an offline call made
\* next returns C.
C8_RemoteThenOfflineReturnsSame ==
    [][/\ (calls' = calls + 1 /\ status'.source = "remote") =>
              cacheFile' = JsonText(CacheDoc(IsoString(call'.at + call'.inp.elapsed),
                                             status'.pricingMap))
       /\ (calls' = calls + 1 /\ status.source = "remote" /\ call'.offline) =>
              (status'.source = "offline-cache"
                  /\ status'.pricingMap = status.pricingMap)]_vars

\* C8 witness: an offline call reading back the catalog a remote call wrote
\* over a corrupt file ten seconds after it started
C8_Witness ==
    /\ Offline
    /\ status.source = "offline-cache"
    /\ status.pricingMap = CatalogB
    /\ call.pre = JsonText(CacheDoc(IsoString(StartMs + FETCH_TIMEOUT_MS), CatalogB))

(***************************************************************************)
(* Properties of the resolver and of the cost calculator.                  *)
(***************************************************************************)
\* the least element of a non-empty set of integers
Least(S) == CHOOSE x \in S : \A y \in S : x <= y

HasSlash(s) == \E i \in 1..Len(s) : s[i] = "/"

C10_TieredCost ==
    costOut.done =>
        LET t == costIn.totalTokens
            base == IF NumberIsFinite(costIn.basePrice) THEN costIn.basePrice.v ELSE 0
            highGiven == NumberIsFinite(costIn.tieredPrice) /\ costIn.tieredPrice.v > 0
            threshold == IF costIn.threshold = JUndefined THEN 200000
                         ELSE costIn.threshold.v
        IN  IF ~NumberIsFinite(t) \/ t.v <= 0 THEN costOut.value = Num(0)
            ELSE IF t.v <= threshold \/ ~highGiven
            THEN costOut.value = Num(t.v * base)
            ELSE costOut.value =
                     Num(threshold * base + (t.v - threshold) * costIn.tieredPrice.v)

\* C10 witness: 250,000 tokens with the default threshold and both rates set
C10_Witness ==
    /\ costOut.done
    /\ costIn.totalTokens = Num(250000)
    /\ costIn.threshold = JUndefined
    /\ costIn.basePrice = Num(3)
    /\ costIn.tieredPrice = Num(5)
    /\ costOut.value = Num(850000)

(***************************************************************************)
(* Properties of the cost estimate.                                        *)
(***************************************************************************)
\* what calculateTieredCost charges for n tokens under two rates of a card
Charge(card, n, base, high) ==
    CalculateTieredCost(Num(n), Prop(card, base), Prop(card, high), JUndefined).v

\* C11: for a codex entry the billed cache-read count is min(cacheReadTokens,
\* inputTokens) clamped at 0 and the billed input count is inputTokens minus
\* that amount, so the two sum to inputTokens whenever inputTokens >= 0; for
\* any other origin the full inputTokens are billed as input and the full
\* cacheReadTokens in addition.  A count that is not positive is charged
\* nothing, so the estimate is the sum of the charges for these counts.
C11_CacheReadAccounting ==
    (estimateOut.done /\ estimateOut.value # JNull) =>
        LET e == estimateIn.entry
            card == ResolvePricing(estimateIn.pricingMap, e)
            codex == e.source = "codex"
            cacheRead == IF codex
                         THEN (IF Min(e.cacheReadTokens, e.inputTokens) < 0 THEN 0
                               ELSE Min(e.cacheReadTokens, e.inputTokens))
                         ELSE e.cacheReadTokens
            input == IF codex THEN e.inputTokens - cacheRead ELSE e.inputTokens
            output == e.outputTokens + (IF codex THEN e.reasoningOutputTokens ELSE 0)
            billed == BilledTokens(e)
        IN  /\ estimateOut.value =
                   Num(Charge(card, input, "input_cost_per_token",
                              "input_cost_per_token_above_200k_tokens")
                       + Charge(card, output, "output_cost_per_token",
                                "output_cost_per_token_above_200k_tokens")
                       + Charge(card, e.cacheWriteTokens, "cache_creation_input_token_cost",
                                "cache_creation_input_token_cost_above_200k_tokens")
                       + Charge(card, cacheRead, "cache_read_input_token_cost",
                                "cache_read_input_token_cost_above_200k_tokens"))
            /\ (codex /\ e.inputTokens >= 0) =>
                   /\ billed.cacheRead = cacheRead
                   /\ billed.nonCachedInput = input
                   /\ billed.nonCachedInput + billed.cacheRead = e.inputTokens
            /\ (~codex /\ e.inputTokens >= 0 /\ e.cacheReadTokens >= 0) =>
                   /\ billed.nonCachedInput = e.inputTokens
                   /\ billed.cacheRead = e.cacheReadTokens

\* C11 witness: a codex entry reporting more cached tokens (300) than input
\* tokens (100) is billed 100 cache reads and no input: 100 * 1 + 50 * 6
C11_Witness ==
    /\ estimateOut.done
    /\ estimateIn.pricingMap = CardCatalog(S_openai_gpt4, FlatCard)
    /\ estimateIn.entry.source = "codex"
    /\ estimateIn.entry.model = S_gpt4
    /\ estimateIn.entry.inputTokens = 100
    /\ estimateIn.entry.cacheReadTokens = 300
    /\ estimateIn.entry.cacheWriteTokens = 0
    /\ estimateIn.entry.outputTokens = 50
    /\ estimateIn.entry.reasoningOutputTokens = 0
    /\ estimateOut.value = Num(400)

(***************************************************************************)
(* Properties of the aggregation.                                          *)
(***************************************************************************)
\* the sum of f[i] over the indices 1..n that are in S
RECURSIVE SumIn(_, _, _)
SumIn(f, S, n) ==
    IF n = 0 THEN 0 ELSE SumIn(f, S, n - 1) + (IF n \in S THEN f[n] ELSE 0)

ZeroUsage(raw) == raw # JNull /\ \A f \in UsageFields : raw[f] = 0

\* C13: for a usage event with a cumulative total, every field of the delta
\* is the field of the current snapshot minus the field of the baseline (0
\* without a baseline) if that is positive and 0 otherwise, so never
\* negative, and the current snapshot becomes the baseline.
C13_DeltaClampedBaselineReplaced ==
    [][(IsUsageEvent(codexLine') /\ TotalOf(codexLine') # JNull) =>
          LET current == TotalOf(codexLine') IN
          /\ \A f \in UsageFields :
                 LET difference == current[f]
                                     - (IF previousTotals = JNull THEN 0
                                        ELSE previousTotals[f])
                 IN  /\ codexEntry'.raw[f] = (IF difference > 0 THEN difference ELSE 0)
                     /\ codexEntry'.raw[f] >= 0
          /\ previousTotals' = current]_vars

\* C13 witness: snapshot B read on baseline A: the output count fell from 5 to
\* 4 and its delta is 0, the other deltas are the differences
C13_Witness ==
    /\ IsUsageEvent(codexLine)
    /\ OptProp(AsRecord(Prop(codexLine.payload, "info")), "total_token_usage") = TotalB
    /\ previousTotals = NormalizeCodexRawUsage(TotalB)
    /\ codexEntry.raw = [t |-> "object", input_tokens |-> 20, cached_input_tokens |-> 36,
                         output_tokens |-> 0, reasoning_output_tokens |-> 1,
                         total_tokens |-> 19]

\* C14: within a stream, a usage event carrying the same cumulative snapshot
\* as the usage event before it has a delta of zero in all five fields and
\* pushes no entry; every usage event whose five delta fields are zero pushes
\* no entry; a line that is not a usage event leaves the baseline alone.
C14_RepeatedSnapshotDropped ==
    [][codexFile' = codexFile =>
          /\ (/\ IsUsageEvent(codexLine) /\ TotalOf(codexLine) # JNull
              /\ IsUsageEvent(codexLine') /\ TotalOf(codexLine') = TotalOf(codexLine))
                 => (ZeroUsage(codexEntry'.raw) /\ ~codexEntry'.pushed)
          /\ (IsUsageEvent(codexLine') /\ ZeroUsage(codexEntry'.raw))
                 => ~codexEntry'.pushed
          /\ ~IsUsageEvent(codexLine') => previousTotals' = previousTotals]_vars

\* C14 witness: snapshot A read on baseline A: a delta of zero, nothing pushed
C14_Witness ==
    /\ IsUsageEvent(codexLine)
    /\ OptProp(AsRecord(Prop(codexLine.payload, "info")), "total_token_usage") = TotalA
    /\ previousTotals = NormalizeCodexRawUsage(TotalA)
    /\ ZeroUsage(codexEntry.raw)
    /\ ~codexEntry.pushed

\* a usage event with a last usage and no cumulative total
LastOnly(line) == IsUsageEvent(line) /\ TotalOf(line) = JNull /\ LastOf(line) # JNull

\* C15 as stated: a usage event with only a last usage is emitted with
\* exactly those token values and leaves the baseline unchanged.
C15_LastOnlyEmittedAsIs ==
    [][LastOnly(codexLine') =>
          /\ codexEntry'.pushed
          /\ codexEntry'.entry.inputTokens = LastOf(codexLine').input_tokens
          /\ codexEntry'.entry.cacheReadTokens = LastOf(codexLine').cached_input_tokens
          /\ codexEntry'.entry.outputTokens = LastOf(codexLine').output_tokens
          /\ codexEntry'.entry.reasoningOutputTokens
                 = LastOf(codexLine').reasoning_output_tokens
          /\ previousTotals' = previousTotals]_vars

\* C15 amended: a usage event with only a last usage leaves the baseline
\* unchanged; it is emitted with its input, output and reasoning values and
\* with the smaller of its cached and its input value as cache-read tokens,
\* unless those four sum to zero, and then nothing is emitted.
C15_LastOnlyKeepsBaseline ==
    [][LastOnly(codexLine') =>
          LET last == LastOf(codexLine')
              capped == IF last.cached_input_tokens < last.input_tokens
                        THEN last.cached_input_tokens ELSE last.input_tokens
          IN  /\ previousTotals' = previousTotals
              /\ codexEntry'.raw = last
              /\ codexEntry'.pushed <=>
                     last.input_tokens + last.output_tokens + capped
                         + last.reasoning_output_tokens # 0
              /\ codexEntry'.pushed =>
                     /\ codexEntry'.entry.inputTokens = last.input_tokens
                     /\ codexEntry'.entry.cacheReadTokens = capped
                     /\ codexEntry'.entry.outputTokens = last.output_tokens
                     /\ codexEntry'.entry.reasoningOutputTokens
                            = last.reasoning_output_tokens]_vars

\* C15 witness: a last usage of 7 input, 9 cached and 3 output tokens read on
\* baseline A is emitted with 7 cache-read tokens and the baseline is still A
C15_Witness ==
    /\ LastOnly(codexLine)
    /\ OptProp(AsRecord(Prop(codexLine.payload, "info")), "last_token_usage") = LastA
    /\ previousTotals = NormalizeCodexRawUsage(TotalA)
    /\ codexEntry.pushed
    /\ codexEntry.entry.inputTokens = 7
    /\ codexEntry.entry.cacheReadTokens = 7
    /\ codexEntry.entry.outputTokens = 3

\* C16 as stated: an emitted usage event has its own model if it carries
\* one; else the model of the last turn_context line of the stream that
\* carried one; else gpt-5.
C16_ModelOfLastContext ==
    (IsUsageEvent(codexLine) /\ codexEntry.pushed) =>
        codexEntry.entry.model =
            Coalesce(OwnModel(codexLine), Coalesce(contextModel, StringOf(S_gpt5))).chars

\* C16 amended: an emitted usage event has its own model if it carries one;
\* else the model seen last in its stream, on a turn_context line or on an
\* earlier usage event that had a usage value; else gpt-5.  Nothing else
\* changes the model seen last, and a new stream starts without one.
C16_ModelSeenLast ==
    [][/\ (IsUsageEvent(codexLine') /\ codexEntry'.pushed) =>
              codexEntry'.entry.model =
                  Coalesce(OwnModel(codexLine'),
                           Coalesce(currentModel, StringOf(S_gpt5))).chars
       /\ currentModel' =
              IF codexFile' # codexFile THEN JUndefined
              ELSE IF ContextModelOf(codexLine') # JUndefined
              THEN ContextModelOf(codexLine')
              ELSE IF /\ IsUsageEvent(codexLine') /\ codexEntry'.raw # JNull
                      /\ OwnModel(codexLine') # JUndefined
              THEN OwnModel(codexLine')
              ELSE currentModel]_vars

\* C16 witness: a usage event without a model is emitted as gpt-4, the model
\* of an earlier usage event, after a turn_context line that said gpt-5-codex
C16_Witness ==
    /\ IsUsageEvent(codexLine)
    /\ OwnModel(codexLine) = JUndefined
    /\ codexEntry.pushed
    /\ contextModel = StringOf(S_gpt5_codex)
    /\ codexEntry.entry.model = S_gpt4

(***************************************************************************)
(* Properties of the entries the loaders push.                             *)
(***************************************************************************)
TokenFields ==
    {"inputTokens", "outputTokens", "cacheReadTokens", "cacheWriteTokens",
     "reasoningOutputTokens"}

\* C17: every entry pushed by the Claude loader and by the Codex loader has
\* its five token fields finite and not negative: a raw value that is
\* missing, not a number, not finite or negative has become 0.
C17_TokenFieldsNotNegative ==
    /\ claudeEntry.pushed => \A f \in TokenFields : claudeEntry.entry[f] \in Nat
    /\ codexEntry.pushed => \A f \in TokenFields : codexEntry.entry[f] \in Nat

(***************************************************************************)
(* Properties of the fuzzy fallback and of the variant expansion.          *)
(***************************************************************************)
\* the keys of the catalog given to resolvePricing, as a set
ResolveKeys ==
    {resolveIn.pricingMap.entries[i].key : i \in 1..Len(resolveIn.pricingMap.entries)}

\* resolvePricing was given the model gpt-4-turbo-preview without a provider
TurboPreviewResolved ==
    /\ resolveOut.done
    /\ resolveIn.entry.model = S_gpt4_turbo_preview
    /\ resolveIn.entry.provider = JUndefined

\* C18 as stated: with the keys openai/gpt-4 and openai/gpt-4-turbo and the
\* model gpt-4-turbo-preview the record of openai/gpt-4-turbo is returned.
C18_LongerPrefixedKeyWins ==
    (TurboPreviewResolved /\ ResolveKeys = {S_openai_gpt4, S_openai_gpt4_turbo}) =>
        resolveOut.value = RecordOf(S_openai_gpt4_turbo)

\* C18 amended: with the keys gpt-4 and gpt-4-turbo, in either order, and the
\* model gpt-4-turbo-preview the record of gpt-4-turbo is returned; with the
\* keys openai/gpt-4 and openai/gpt-4-turbo no key contains the model or is
\* contained in it, and the result is not-found.
C18_LongerBareKeyWins ==
    TurboPreviewResolved =>
        /\ ResolveKeys = {S_gpt4, S_gpt4_turbo} =>
               resolveOut.value = RecordOf(S_gpt4_turbo)
        /\ ResolveKeys = {S_openai_gpt4, S_openai_gpt4_turbo} =>
               resolveOut.value = JNull

\* C18 witness: gpt-4-turbo, listed after gpt-4, is returned
C18_Witness ==
    /\ TurboPreviewResolved
    /\ resolveIn.pricingMap = CatalogOf(<<S_gpt4, S_gpt4_turbo>>)
    /\ resolveOut.value = RecordOf(S_gpt4_turbo)

\* the elements of a sequence
Range(seq) == {seq[i] : i \in 1..Len(seq)}

\* C19: the variants start with the trimmed raw model; a model
\* gpt-N.m-codex[-mini|-max|-high|-low] adds gpt-N-codex[...], a model gpt-N.m
\* adds gpt-N, a model ending in -latest adds the model without that suffix;
\* every one of these that is a key of the alias table adds its alias; there
\* are no other variants.  So gpt-5.1-codex-high yields gpt-5-codex-high and
\* gpt-5, and claude-3.5-sonnet-latest yields claude-3.5-sonnet.
C19_VariantExpansion ==
    variantsOut.done =>
        LET inp == variantsIn
            out == variantsOut.value
            trimmed == inp.prefix \o inp.major \o inp.minor \o inp.suffix
            gpt == inp.prefix \in {S_gpt \o S_dash, <<"G", "P", "T">> \o S_dash}
            codex == {S_dash \o S_codex} \cup
                     {S_dash \o S_codex \o S_dash \o x : x \in {S_mini, S_max, S_high, S_low}}
            versioned ==
                (IF gpt /\ inp.minor # <<>> /\ inp.suffix \in codex
                 THEN {inp.prefix \o inp.major \o inp.suffix} ELSE {})
                \cup (IF gpt /\ inp.minor # <<>> /\ inp.suffix = <<>>
                      THEN {inp.prefix \o inp.major} ELSE {})
                \cup (IF EndsWith(trimmed, S_dash \o S_latest)
                      THEN {SubSeq(trimmed, 1, Len(trimmed) - 7)} ELSE {})
            tabled ==
                {MODEL_ALIASES[i][2] :
                    i \in {j \in 1..Len(MODEL_ALIASES) :
                              MODEL_ALIASES[j][1] \in {trimmed} \cup versioned}}
        IN  /\ out[1] = trimmed
            /\ Range(out) = {trimmed} \cup versioned \cup tabled
            /\ \A i, j \in 1..Len(out) : i # j => out[i] # out[j]
            /\ trimmed = S_gpt51_codex_high =>
                   {S_gpt5_codex_high, S_gpt5} \subseteq Range(out)
            /\ trimmed = S_claude \o S_dash \o <<"3">> \o S_dot \o <<"5">> \o S_dash
                              \o S_sonnet \o S_dash \o S_latest =>
                   S_claude \o S_dash \o <<"3">> \o S_dot \o <<"5">> \o S_dash \o S_sonnet
                       \in Range(out)

\* C19 witness: " gpt-5.1-codex-high " expands to itself trimmed, to
\* gpt-5-codex-high and, through the alias table, to gpt-5
C19_Witness ==
    /\ variantsOut.done
    /\ variantsIn.model = <<" ">> \o S_gpt51_codex_high \o <<" ">>
    /\ variantsOut.value = <<S_gpt51_codex_high, S_gpt5_codex_high, S_gpt5>>

Qualifying(entries, modelLower) ==
    {i \in 1..Len(entries) :
        \/ Includes(ToLowerCase(entries[i].key), modelLower)
        \/ Includes(modelLower, ToLowerCase(entries[i].key))}

\* min(len(key), len(model)) of the key at position i
SharedLength(entries, modelLower, i) == Min(Len(entries[i].key), Len(modelLower))

\* no candidate is a key of the catalog and no key ends with "/" + candidate
NoExactNoSuffix(pricingMap, entry) ==
    LET candidates == PricingCandidates(entry) IN
    /\ \A c \in 1..Len(candidates) : IsNullish(Lookup(pricingMap, candidates[c]))
    /\ \A i \in 1..Len(pricingMap.entries) : \A c \in 1..Len(candidates) :
           ~EndsWith(pricingMap.entries[i].key, S_slash \o candidates[c])

\* C21: when no candidate is a key and no key ends with "/" + candidate,
\* resolvePricing returns not-found if no key qualifies for the fuzzy tier,
\* and otherwise the record of the one qualifying key whose shared length
\* min(len(key), len(model)) is the largest and strictly larger than that of
\* every qualifying key before it in catalog order; the result is fixed by
\* the catalog and the entry alone.
C21_FuzzyTier ==
    (/\ resolveOut.done
     /\ NoExactNoSuffix(resolveIn.pricingMap, resolveIn.entry)) =>
        LET entries == resolveIn.pricingMap.entries
            modelLower == ToLowerCase(Trim(resolveIn.entry.model))
            Q == Qualifying(entries, modelLower)
            IsBest(i) ==
                /\ \A j \in Q : SharedLength(entries, modelLower, j)
                                     <= SharedLength(entries, modelLower, i)
                /\ \A j \in Q : j < i => SharedLength(entries, modelLower, j)
                                              < SharedLength(entries, modelLower, i)
        IN  /\ Q = {} => resolveOut.value = JNull
            /\ Q # {} =>
                   /\ Cardinality({i \in Q : IsBest(i)}) = 1
                   /\ \E i \in Q : IsBest(i) /\ resolveOut.value = entries[i].value

\* C21 witness: GPT-4-TURBO and gpt-4-turbo tie on the largest shared length
\* for " GPT-4-Turbo-preview ", gpt-4 qualifies with a smaller one, and the
\* record of the first of the two tied keys is returned
C21_Witness ==
    /\ resolveOut.done
    /\ NoExactNoSuffix(resolveIn.pricingMap, resolveIn.entry)
    /\ resolveIn.pricingMap = CatalogOf(<<S_gpt4, S_GPT4_TURBO, S_gpt4_turbo>>)
    /\ resolveIn.entry.model # S_gpt4_turbo_preview
    /\ ToLowerCase(Trim(resolveIn.entry.model)) = S_gpt4_turbo_preview
    /\ resolveOut.value = RecordOf(S_GPT4_TURBO)

\* both processes have returned and the request of each ended well
BothFetched ==
    \A p \in Processes : procs[p].pc = "done" /\ procs[p].inp.outcome = "ok"

\* C22: when two concurrent online acquisitions both receive a well-formed
\* payload, each returns its own payload as remote, and once both have
\* returned the cache file holds the document of the payload whose write
\* completed last; no acquisition ends with an exception at any point.
C22_LastWriterWins ==
    /\ \A p \in Processes : ~procs[p].threw
    /\ BothFetched =>
           /\ \A p \in Processes :
                  procs[p].status =
                      PricingStatus(procs[p].inp.payload,
                                    ObjectKeysLength(procs[p].inp.payload) = 0, "remote")
           /\ writeOrder # <<>>
           /\ FileOfText(diskText).parses
           /\ FileOfText(diskText).value.data
                  = procs[writeOrder[Len(writeOrder)]].inp.payload

\* C23: in a session file in which every token_count line so far had a
\* valid timestamp and a cumulative total that was in no field below the
\* one before it, the inputTokens of the entries pushed for the file add up
\* to the input_tokens of the last snapshot, and so do the outputTokens and
\* the reasoningOutputTokens with output_tokens and reasoning_output_tokens;
\* before the first snapshot the sums are 0.
C23_DeltasAddUpToLastSnapshot ==
    cumulative =>
        /\ emitted.inputTokens = PreviousField(previousTotals, "input_tokens")
        /\ emitted.outputTokens = PreviousField(previousTotals, "output_tokens")
        /\ emitted.reasoningOutputTokens
               = PreviousField(previousTotals, "reasoning_output_tokens")

====
